---- MODULE Spec2Model ----
(***************************************************************************)
(* WAMP router (dyule/wamp-rs): the pattern trie of router/patterns.rs and *)
(* the per-connection handler of router/mod.rs, router/handshake.rs and    *)
(* router/messaging.rs.                                                    *)
(*                                                                         *)
(* Representation.  A URI string is held as the sequence of fragments that *)
(* `split(".")` produces for it: "a.b" is <<"a","b">>, "a." is <<"a","">>   *)
(* and the empty string is <<"">> (Rust's split never yields nothing).     *)
(* The nested HashMap<String, PatternNode> of the trie is held flat, as a  *)
(* function from the path of edge names that leads to a node to the node's *)
(* own fields; a node has the edge f exactly when path \o <<f>> is in the  *)
(* function's domain.                                                      *)
(*                                                                         *)
(* random_id() draws from [0, 2^56): a draw is modelled as an ID that no   *)
(* live object holds (the least such), so the 2^-56 collisions are left    *)
(* out; draws whose value is thrown away are not modelled.                 *)
(***************************************************************************)
EXTENDS Integers, Sequences, FiniteSets, TLC

\* ---------------------------------------------------------------- bounds
MaxDepth == 2       \* fragments in a pattern or a URI
NumOwners == 2      \* MockData owners of the stand-alone trie
MaxCalls == 3       \* subscribe_with / unsubscribe_with calls on the stand-alone trie
NumConns == 2       \* connections the router accepted
MaxSteps == 5        \* messages handled and transport events
MaxOffers == 2      \* the most sub-protocols one upgrade request offers
MaxArgs == 1        \* the most elements of a payload list, keys of a payload dict
MaxMember == 2      \* the greatest number a message member is given
MaxRequests == 2    \* requests one Client issues (its max_session_id)
MaxInjected == 1    \* frames that reach the client from a peer of any kind
MaxSends == 3       \* the sends of one handler, of which one may fail

\* ---------------------------------------------------------------- inputs
PatternFrags == {"", "a"}
UriFrags == {"", "a", "b"}
Policies == {"Strict", "Wildcard", "Prefix"}
Owners == 1..NumOwners

SeqsUpTo(S, n) == UNION {[1..k -> S] : k \in 1..n}
Patterns == SeqsUpTo(PatternFrags, MaxDepth)
URIs == SeqsUpTo(UriFrags, MaxDepth)

\* A connection is named by its ConnectionInfo.id (drawn once, at accept).
Conns == 1..NumConns
RealmNames == {"realm1", "realm2"}      \* Router::add_realm, before listen
HelloRealms == RealmNames \cup {"nosuch"}
RequestIds == {7}
SubTopics == {<<"a">>, <<"a", "">>}
PubTopics == {<<"a">>, <<"a", "b">>}
Procedures == {<<"a">>}
OtherTypes == {"WELCOME"}               \* a type handle_message has no arm for
\* the options dict of a PUBLISH on the wire, as the set of its keys that are
\* true: "acknowledge" is the key of the wire format, "acknolwedge" the name
\* of the field PublishOptions derives its (de)serialization from
PublishDicts == {{}, {"acknowledge"}, {"acknolwedge"}}
WAMP_JSON == "wamp.2.json"
WAMP_MSGPACK == "wamp.2.msgpack"
\* the Sec-WebSocket-Protocol lists of an upgrade request
Offers == UNION {[1..n -> {WAMP_JSON, WAMP_MSGPACK, "other"}] : n \in 0..MaxOffers}
None == "None"
NoTopic == <<>>                         \* Option<URI>::None: no string splits to it

VARIABLES
    root,       \* the stand-alone PatternNode<MockData> trie
    ret,        \* what the last trie call returned
    steps,      \* calls made / messages handled so far
    state,              \* ConnectionInfo.state, per connection
    realm,              \* ConnectionHandler.realm, per connection
    subscribed_topics,  \* ConnectionHandler.subscribed_topics, per connection
    transport,          \* the connection's WebSocket: connecting, open, closing,
                        \* closed
    protocol,           \* ConnectionInfo.protocol, per connection
    connections,        \* Realm.connections, per realm
    subscriptions,      \* SubscriptionManager.subscriptions, per realm
    subscription_ids_to_uris,   \* SubscriptionManager's side map, per realm
    registrations,      \* registration_manager.registrations, per realm
    registration_ids_to_uris,   \* registration_manager's side map, per realm
    registered_procedures,      \* ConnectionHandler.registered_procedures
    panicked,           \* a handler panicked: the listen() thread is gone
    last,               \* the message handled last, and the state it met
    out,                \* the frames the last handler passed to send_message
    returned,           \* per connection, what SUBSCRIBED frames told it so far
    message,            \* the Message value handed to the codec
    encoded,            \* what Message::serialize wrote for it
    decoded,            \* what Message::deserialize read back
    connection_info,    \* the client's ConnectionInfo
    max_session_id,     \* Client.max_session_id
    client_id,          \* Client.id, 0 while there is no Client
    connecting,         \* Connection::connect: new, awaiting, ok, err
    recv_loop,          \* the thread of start_recv_loop: none, running,
                        \* stopped (the loop is left), done, panicked
    caller,             \* the Client method the caller's thread is inside
    to_router,          \* what the client has sent, oldest first
    to_client,          \* what is on its way to the client, oldest first
    resolved,           \* per request ID, how often its completion was completed
    shutdown_resolved,  \* how often a shutdown completion was completed
    result,             \* what the last call of connect or of a Client method
                        \* returned
    received,           \* the frame the receive loop took last
    injected,           \* frames sent by PeerSends so far
    program,            \* per router thread, the lock operations it has yet
                        \* to make in the call it is inside
    held,               \* per router thread, the locks it holds, oldest first
    ws_result           \* what on_message returned to the WebSocket layer when
                        \* a send of its handler failed, and for which message

trieVars == <<root, ret>>
connVars == <<state, realm, subscribed_topics, transport>>
realmVars == <<connections, subscriptions, subscription_ids_to_uris>>
rpcVars == <<registrations, registration_ids_to_uris, registered_procedures>>
routerVars ==
    <<connVars, protocol, realmVars, rpcVars, panicked, last, out, returned>>
codecVars == <<message, encoded, decoded>>
clientVars ==
    <<connection_info, max_session_id, client_id, connecting, recv_loop, caller,
      to_router, to_client, resolved, shutdown_resolved, result, received,
      injected>>
lockVars == <<program, held>>
sendVars == <<ws_result>>
restVars == <<codecVars, clientVars, lockVars, sendVars>>
vars == <<trieVars, steps, routerVars, restVars>>

\* ------------------------------------------------------------ random_id
random_id(used) ==
    CHOOSE n \in 1..(Cardinality(used) + 1) :
        n \notin used /\ \A m \in 1..(n - 1) : m \in used

\* ---------------------------------------------------------- the codec
\* Option<T>
NoneOpt == [some |-> FALSE, v |-> <<>>]
Some(v) == [some |-> TRUE, v |-> v]

\* An element of the array a message is on the wire; a scalar is held as a
\* sequence of one, a map as the sequence of its keys.
WireItem(kind, v) == [kind |-> kind, v |-> v]
Scalar(x) == WireItem("scalar", <<x>>)

\* the number a variant is written with, how many members follow it before
\* the payload, and whether it ends with Option<List>, Option<Dict>
Variants ==
    {[name |-> "Hello", code |-> 1, members |-> 2, payload |-> FALSE],
     [name |-> "Welcome", code |-> 2, members |-> 2, payload |-> FALSE],
     [name |-> "Abort", code |-> 3, members |-> 2, payload |-> FALSE],
     [name |-> "Goodbye", code |-> 6, members |-> 2, payload |-> FALSE],
     [name |-> "Error", code |-> 8, members |-> 4, payload |-> TRUE],
     [name |-> "Subscribe", code |-> 32, members |-> 3, payload |-> FALSE],
     [name |-> "Subscribed", code |-> 33, members |-> 2, payload |-> FALSE],
     [name |-> "Unsubscribe", code |-> 34, members |-> 2, payload |-> FALSE],
     [name |-> "Unsubscribed", code |-> 35, members |-> 1, payload |-> FALSE],
     [name |-> "Publish", code |-> 16, members |-> 3, payload |-> TRUE],
     [name |-> "Published", code |-> 17, members |-> 2, payload |-> FALSE],
     [name |-> "Event", code |-> 36, members |-> 3, payload |-> TRUE],
     [name |-> "Register", code |-> 64, members |-> 3, payload |-> FALSE],
     [name |-> "Registered", code |-> 65, members |-> 2, payload |-> FALSE],
     [name |-> "Unregister", code |-> 66, members |-> 2, payload |-> FALSE],
     [name |-> "Unregistered", code |-> 67, members |-> 1, payload |-> FALSE],
     [name |-> "Call", code |-> 48, members |-> 3, payload |-> TRUE],
     [name |-> "Invocation", code |-> 68, members |-> 3, payload |-> TRUE],
     [name |-> "Yield", code |-> 70, members |-> 2, payload |-> TRUE],
     [name |-> "Result", code |-> 50, members |-> 2, payload |-> TRUE]}

VariantOf(name) == CHOOSE v \in Variants : v.name = name

\* the Message values given to the codec: the members before the payload
\* are numbers, the first of them any of MemberVals
MemberVals == 1..MaxMember
ArgLists == UNION {[1..n -> {5}] : n \in 0..MaxArgs}
KwargDicts == UNION {[1..n -> {1}] : n \in 0..MaxArgs}
Messages ==
    UNION {
        {[variant |-> v.name,
          members |-> [k \in 1..v.members |-> IF k = 1 THEN f ELSE 1],
          args |-> a, kwargs |-> kw] :
            f \in MemberVals,
            a \in IF v.payload THEN {NoneOpt} \cup {Some(l) : l \in ArgLists}
                   ELSE {NoneOpt},
            kw \in IF v.payload THEN {NoneOpt} \cup {Some(d) : d \in KwargDicts}
                    ELSE {NoneOpt}} :
        v \in Variants}

NoMessage ==
    [variant |-> "None", members |-> <<>>, args |-> NoneOpt, kwargs |-> NoneOpt]
DecodeOk(m) == [ok |-> TRUE, message |-> m]
DecodeErr == [ok |-> FALSE, message |-> NoMessage]
\* nothing has been read back yet
Undecoded == DecodeOk(NoMessage)

\* serialize_with_args!: the items, then args and kwargs by which are Some
serialize_with_args(args, kwargs, items) ==
    IF kwargs.some
    THEN IF args.some
         THEN items \o <<WireItem("list", args.v), WireItem("map", kwargs.v)>>
         ELSE items \o <<WireItem("list", <<>>), WireItem("map", kwargs.v)>>
    ELSE IF args.some
         THEN Append(items, WireItem("list", args.v))
         ELSE items

\* impl Serialize for Message
serialize(m) ==
    LET v == VariantOf(m.variant)
        items == <<Scalar(v.code)>>
                 \o [k \in 1..v.members |-> Scalar(m.members[k])]
    IN  IF v.payload THEN serialize_with_args(m.args, m.kwargs, items)
        ELSE items

\* visitor.visit() for an Option<List> or Option<Dict> member: None when the
\* array has ended
visit_option(rest, k, kind) ==
    IF k > Len(rest) THEN [ok |-> TRUE, v |-> NoneOpt]
    ELSE IF rest[k].kind = kind THEN [ok |-> TRUE, v |-> Some(rest[k].v)]
    ELSE [ok |-> FALSE, v |-> NoneOpt]

\* MessageVisitor::visit_seq and the visit_* function of the variant
visit_seq(wire) ==
    IF wire = <<>> \/ wire[1].kind # "scalar" THEN DecodeErr
    ELSE LET hits == {v \in Variants : v.code = wire[1].v[1]}
         IN  IF hits = {} THEN DecodeErr
             ELSE LET v == CHOOSE x \in hits : TRUE
                      rest == SubSeq(wire, v.members + 2, Len(wire))
                      args == visit_option(rest, 1, "list")
                      kwargs == visit_option(rest, 2, "map")
                  IN  IF \/ Len(wire) < v.members + 1
                         \/ \E k \in 2..(v.members + 1) : wire[k].kind # "scalar"
                      THEN DecodeErr
                      ELSE IF ~v.payload
                      THEN IF rest = <<>>
                           THEN DecodeOk([variant |-> v.name,
                                          members |-> [k \in 1..v.members |->
                                                          wire[k + 1].v[1]],
                                          args |-> NoneOpt, kwargs |-> NoneOpt])
                           ELSE DecodeErr
                      ELSE IF Len(rest) > 2 \/ ~args.ok \/ ~kwargs.ok
                           THEN DecodeErr
                           ELSE DecodeOk([variant |-> v.name,
                                          members |-> [k \in 1..v.members |->
                                                          wire[k + 1].v[1]],
                                          args |-> args.v, kwargs |-> kwargs.v])

\* serde_json::to_string(&message), or the rmp Serializer
Serialize ==
    \E m \in Messages :
        /\ message' = m
        /\ encoded' = serialize(m)
        /\ decoded' = Undecoded
        /\ UNCHANGED <<trieVars, steps, routerVars, clientVars, lockVars, sendVars>>

\* serde_json::from_str::<Message>, or the rmp Deserializer
Deserialize ==
    /\ encoded # <<>>
    /\ decoded' = visit_seq(encoded)
    /\ UNCHANGED <<message, encoded, trieVars, steps, routerVars, clientVars, lockVars, sendVars>>

NextCodec == Serialize \/ Deserialize

\* ---------------------------------------------------------- PatternNode
TrieIds(t) == UNION {{t[p].id, t[p].prefix_id} : p \in DOMAIN t}

PatternNode_new(used) ==
    LET i == random_id(used)
    IN  [connections |-> <<>>, prefix_connections |-> <<>>,
         id |-> i, prefix_id |-> random_id(used \cup {i})]

\* the edge to p taking a new node also when it has one: the bags are kept,
\* the IDs drawn again (C19's mutant)
entry_insert_renumbered(t, p, used) ==
    LET n == PatternNode_new(used \cup TrieIds(t))
    IN  IF p \in DOMAIN t
        THEN [t EXCEPT ![p].id = n.id, ![p].prefix_id = n.prefix_id]
        ELSE t @@ (p :> n)

\* self.edges.entry(bit).or_insert(PatternNode::new()) for the node at path p
entry_or_insert(t, p, used) ==
    IF p \in DOMAIN t THEN t
    ELSE t @@ (p :> PatternNode_new(used \cup TrieIds(t)))

DataWrapper(subscriber, policy) == [subscriber |-> subscriber, policy |-> policy]

Ok(t, id) == [trie |-> t, ok |-> TRUE, id |-> id, reason |-> "none"]
Err(t, reason) == [trie |-> t, ok |-> FALSE, id |-> 0, reason |-> reason]

\* the node at SubSeq(uri, 1, i) handles the rest of the fragments
RECURSIVE add_subscription(_, _, _, _, _, _)
add_subscription(t, uri, i, subscriber, policy, used) ==
    IF i < Len(uri)
    THEN IF uri[i + 1] = "" /\ policy # "Wildcard"
         THEN Err(t, "InvalidURI")
         ELSE add_subscription(entry_or_insert(t, SubSeq(uri, 1, i + 1), used),
                               uri, i + 1, subscriber, policy, used)
    ELSE IF policy = "Prefix"
         THEN Ok([t EXCEPT ![uri].prefix_connections =
                      Append(@, DataWrapper(subscriber, policy))],
                 t[uri].prefix_id)
         ELSE Ok([t EXCEPT ![uri].connections =
                      Append(@, DataWrapper(subscriber, policy))],
                 t[uri].id)

\* the first fragment is taken as it is: split(".") always yields one
subscribe_with(t, topic, subscriber, policy, used) ==
    add_subscription(entry_or_insert(t, SubSeq(topic, 1, 1), used),
                     topic, 1, subscriber, policy, used)

Retain(s, Keep(_)) == SelectSeq(s, Keep)

RECURSIVE remove_subscription(_, _, _, _, _)
remove_subscription(t, uri, i, subscriber_id, is_prefix) ==
    IF i < Len(uri)
    THEN IF SubSeq(uri, 1, i + 1) \in DOMAIN t
         THEN remove_subscription(t, uri, i + 1, subscriber_id, is_prefix)
         ELSE Err(t, "InvalidURI")
    ELSE LET Keep(sub) == sub.subscriber # subscriber_id
         IN  IF is_prefix
             THEN Ok([t EXCEPT ![uri].prefix_connections = Retain(@, Keep)],
                     t[uri].prefix_id)
             ELSE Ok([t EXCEPT ![uri].connections = Retain(@, Keep)],
                     t[uri].id)

unsubscribe_with(t, topic, subscriber_id, is_prefix) ==
    remove_subscription(t, topic, 0, subscriber_id, is_prefix)

\* ---------------------------------------------------------- MatchIterator
\* What next() returns for one DataWrapper of the bag it is iterating, with
\* the place it came from: the node, the bag, and the edges taken to it.
next_item(t, path, route, bag, w) ==
    [subscriber |-> w.subscriber, id |-> t[path].prefix_id, policy |-> w.policy,
     node |-> path, bag |-> bag, route |-> route]

BagItems(t, path, route, bag, s) ==
    [k \in 1..Len(s) |-> next_item(t, path, route, bag, s[k])]

\* traverse with the child named by the fragment visited before the ""
\* child (C4's mutant)
RECURSIVE traverse_strict_first(_, _, _, _)
traverse_strict_first(t, uri, path, route) ==
    LET depth == Len(path)
        wild == Append(path, "")
    IN  BagItems(t, path, route, "Prefix", t[path].prefix_connections)
        \o (IF depth = Len(uri)
            THEN BagItems(t, path, route, "Subs", t[path].connections)
            ELSE LET strict == Append(path, uri[depth + 1])
                 IN (IF strict \in DOMAIN t
                     THEN traverse_strict_first(t, uri, strict,
                                                Append(route, "Strict"))
                     ELSE <<>>)
                    \o (IF wild \in DOMAIN t
                        THEN traverse_strict_first(t, uri, wild,
                                                   Append(route, "Wildcard"))
                        ELSE <<>>))

\* the frames of the push-down automaton, unrolled: the prefix bag, then the
\* exact bag when the URI is used up, else the "" child and then the child
\* named by the next fragment
RECURSIVE traverse(_, _, _, _)
traverse(t, uri, path, route) ==
    LET depth == Len(path)
        wild == Append(path, "")
    IN  BagItems(t, path, route, "Prefix", t[path].prefix_connections)
        \o (IF depth = Len(uri)
            THEN BagItems(t, path, route, "Subs", t[path].connections)
            ELSE LET strict == Append(path, uri[depth + 1])
                 IN (IF wild \in DOMAIN t
                     THEN traverse(t, uri, wild, Append(route, "Wildcard"))
                     ELSE <<>>)
                    \o (IF strict \in DOMAIN t
                        THEN traverse(t, uri, strict, Append(route, "Strict"))
                        ELSE <<>>))

filter(t, topic) == traverse(t, topic, <<>>, <<>>)

\* ------------------------------------------------------------ the router
\* Message fields not used by a type are left at these defaults.
Frame(to, type) ==
    [to |-> to, type |-> type, request |-> 0, id |-> 0, publication |-> 0,
     topic |-> NoTopic, reason |-> None, errtype |-> None]

Welcome(to) == [Frame(to, "WELCOME") EXCEPT !.id = to]
Subscribed(to, request_id, topic_id) ==
    [Frame(to, "SUBSCRIBED") EXCEPT !.request = request_id, !.id = topic_id]
Unsubscribed(to, request_id) ==
    [Frame(to, "UNSUBSCRIBED") EXCEPT !.request = request_id]
Published(to, request_id, publication_id) ==
    [Frame(to, "PUBLISHED") EXCEPT !.request = request_id,
                                   !.publication = publication_id]
Event(to, topic_id, publication_id, details_topic) ==
    [Frame(to, "EVENT") EXCEPT !.id = topic_id, !.publication = publication_id,
                               !.topic = details_topic]
Goodbye(to, reason) == [Frame(to, "GOODBYE") EXCEPT !.reason = reason]
Registered(to, request_id, procedure_id) ==
    [Frame(to, "REGISTERED") EXCEPT !.request = request_id, !.id = procedure_id]
Unregistered(to, request_id) ==
    [Frame(to, "UNREGISTERED") EXCEPT !.request = request_id]
ErrorMsg(to, err_type, request_id, reason) ==
    [Frame(to, "ERROR") EXCEPT !.errtype = err_type, !.request = request_id,
                               !.reason = reason]

\* An inbound message, with the state of the connection that it met.
Inbound(c, type) ==
    [conn |-> c, type |-> type, prev |-> state[c], prev_realm |-> realm[c],
     realm |-> None, request |-> 0, policy |-> None, topic |-> NoTopic,
     id |-> 0, ack |-> FALSE, states |-> <<>>, offered |-> <<>>]

\* every ID some live object holds
UsedIds ==
    Conns \cup UNION {TrieIds(subscriptions[r]) \cup TrieIds(registrations[r]) :
                        r \in RealmNames}

\* ConnectionHandler::remove: the loop over subscribed_topics, from its k-th
\* element on; m is the realm's SubscriptionManager
RECURSIVE remove_loop(_, _, _)
remove_loop(c, m, k) ==
    IF k > Len(subscribed_topics[c]) THEN m
    ELSE LET subscription_id == subscribed_topics[c][k]
         IN  IF subscription_id \in DOMAIN m.ids_to_uris
             THEN LET e == m.ids_to_uris[subscription_id]
                      left == [i \in DOMAIN m.ids_to_uris \ {subscription_id}
                                  |-> m.ids_to_uris[i]]
                  IN  remove_loop(c,
                          [trie |-> unsubscribe_with(m.trie, e.uri, c,
                                                     e.is_prefix).trie,
                           ids_to_uris |-> left],
                          k + 1)
             ELSE remove_loop(c, m, k + 1)

\* ConnectionHandler::remove as an action on the realm's fields
remove(c) ==
    IF realm[c] = None
    THEN UNCHANGED realmVars
    ELSE LET r == realm[c]
             m == remove_loop(c, [trie |-> subscriptions[r],
                                  ids_to_uris |-> subscription_ids_to_uris[r]], 1)
             Keep(connection) == connection # c
         IN  /\ subscriptions' = [subscriptions EXCEPT ![r] = m.trie]
             /\ subscription_ids_to_uris' =
                    [subscription_ids_to_uris EXCEPT ![r] = m.ids_to_uris]
             /\ connections' = [connections EXCEPT ![r] = Retain(@, Keep)]

terminate_connection(c) == remove(c)

\* on_message_error for the kinds that end in terminate_connection
\* (InvalidState, InvalidMessageType, JSONError, MsgPackError)
on_message_error_terminate(c) ==
    /\ terminate_connection(c)
    /\ out' = <<>>
    /\ UNCHANGED <<connVars, panicked, returned>>

\* on_message_error for ErrorReason with nothing sent (C13's mutant)
send_error_dropped(c, err_type, request_id, reason) ==
    out' = <<>>

\* on_message_error for ErrorReason: send_error
send_error(c, err_type, request_id, reason) ==
    out' = <<ErrorMsg(c, err_type, request_id, reason)>>

\* handle_hello, with set_realm: realms[&realm] panics on a name not in the map
handle_hello(c, name) ==
    /\ state' = [state EXCEPT ![c] = "Connected"]
    /\ IF name \in RealmNames
       THEN /\ connections' = [connections EXCEPT ![name] = Append(@, c)]
            /\ realm' = [realm EXCEPT ![c] = name]
            /\ out' = <<Welcome(c)>>
            /\ UNCHANGED panicked
       ELSE /\ panicked' = TRUE
            /\ out' = <<>>
            /\ UNCHANGED <<connections, realm>>
    /\ UNCHANGED <<subscribed_topics, transport, subscriptions,
                   subscription_ids_to_uris, returned>>

handle_subscribe(c, request_id, policy, topic) ==
    IF realm[c] = None
    THEN on_message_error_terminate(c)
    ELSE LET r == realm[c]
             res == subscribe_with(subscriptions[r], topic, c, policy, UsedIds)
         IN  /\ subscriptions' = [subscriptions EXCEPT ![r] = res.trie]
             /\ IF res.ok
                THEN /\ subscribed_topics' =
                            [subscribed_topics EXCEPT ![c] = Append(@, res.id)]
                     /\ subscription_ids_to_uris' =
                            [subscription_ids_to_uris EXCEPT ![r] =
                                [i \in DOMAIN @ \cup {res.id} |->
                                    IF i = res.id
                                    THEN [uri |-> topic,
                                          is_prefix |-> policy = "Prefix"]
                                    ELSE @[i]]]
                     /\ out' = <<Subscribed(c, request_id, res.id)>>
                     /\ returned' = [returned EXCEPT ![c] = @ \cup
                            {[topic |-> topic, policy |-> policy, id |-> res.id]}]
                ELSE /\ send_error(c, "Subscribe", request_id, res.reason)
                     /\ UNCHANGED <<subscribed_topics, subscription_ids_to_uris,
                                    returned>>
             /\ UNCHANGED <<state, realm, transport, connections, panicked>>

handle_unsubscribe(c, request_id, topic_id) ==
    IF realm[c] = None
    THEN on_message_error_terminate(c)
    ELSE LET r == realm[c]
             ids == subscription_ids_to_uris[r]
         IN  /\ IF topic_id \notin DOMAIN ids
                THEN /\ send_error(c, "Unsubscribe", request_id,
                                   "NoSuchSubscription")
                     /\ UNCHANGED <<subscriptions, subscribed_topics>>
                ELSE LET res == unsubscribe_with(subscriptions[r],
                                    ids[topic_id].uri, c, ids[topic_id].is_prefix)
                         Keep(id) == id # res.id
                     IN  IF res.ok
                         THEN /\ subscriptions' =
                                     [subscriptions EXCEPT ![r] = res.trie]
                              /\ subscribed_topics' =
                                     [subscribed_topics EXCEPT
                                         ![c] = Retain(@, Keep)]
                              /\ out' = <<Unsubscribed(c, request_id)>>
                         ELSE /\ send_error(c, "Unsubscribe", request_id,
                                            res.reason)
                              /\ UNCHANGED <<subscriptions, subscribed_topics>>
             /\ UNCHANGED <<state, realm, transport, connections,
                            subscription_ids_to_uris, panicked, returned>>

handle_register(c, request_id, policy, procedure) ==
    IF realm[c] = None
    THEN on_message_error_terminate(c) /\ UNCHANGED rpcVars
    ELSE LET r == realm[c]
             res == subscribe_with(registrations[r], procedure, c, policy,
                                   UsedIds)
         IN  /\ registrations' = [registrations EXCEPT ![r] = res.trie]
             /\ IF res.ok
                THEN /\ registered_procedures' =
                            [registered_procedures EXCEPT
                                ![c] = Append(@, res.id)]
                     /\ registration_ids_to_uris' =
                            [registration_ids_to_uris EXCEPT ![r] =
                                [i \in DOMAIN @ \cup {res.id} |->
                                    IF i = res.id
                                    THEN [uri |-> procedure,
                                          is_prefix |-> policy = "Prefix"]
                                    ELSE @[i]]]
                     /\ out' = <<Registered(c, request_id, res.id)>>
                ELSE /\ send_error(c, "Register", request_id, res.reason)
                     /\ UNCHANGED <<registered_procedures,
                                    registration_ids_to_uris>>
             /\ UNCHANGED <<connVars, realmVars, panicked, returned>>

handle_unregister(c, request_id, procedure_id) ==
    IF realm[c] = None
    THEN on_message_error_terminate(c) /\ UNCHANGED rpcVars
    ELSE LET r == realm[c]
             ids == registration_ids_to_uris[r]
         IN  /\ IF procedure_id \notin DOMAIN ids
                THEN /\ send_error(c, "Unregister", request_id,
                                   "NoSuchSubscription")
                     /\ UNCHANGED <<registrations, registered_procedures>>
                ELSE LET res == unsubscribe_with(registrations[r],
                                    ids[procedure_id].uri, c,
                                    ids[procedure_id].is_prefix)
                         Keep(id) == id # res.id
                     IN  IF res.ok
                         THEN /\ registrations' =
                                     [registrations EXCEPT ![r] = res.trie]
                              /\ registered_procedures' =
                                     [registered_procedures EXCEPT
                                         ![c] = Retain(@, Keep)]
                              /\ out' = <<Unregistered(c, request_id)>>
                         ELSE /\ send_error(c, "Unregister", request_id,
                                            res.reason)
                              /\ UNCHANGED <<registrations,
                                             registered_procedures>>
             /\ UNCHANGED <<connVars, realmVars, registration_ids_to_uris,
                            panicked, returned>>

\* publish_events without the test against the publisher's id (C2's mutant)
publish_events_all(c, items, publication_id, topic) ==
    [k \in 1..Len(items) |->
        Event(items[k].subscriber, items[k].id, publication_id,
              IF items[k].policy = "Strict" THEN NoTopic ELSE topic)]

\* publish_events with details.topic set whatever the policy (C14's mutant)
publish_events_with_topic(c, items, publication_id, topic) ==
    LET NotMe(item) == item.subscriber # c
        to_send == SelectSeq(items, NotMe)
    IN  [k \in 1..Len(to_send) |->
            Event(to_send[k].subscriber, to_send[k].id, publication_id, topic)]

\* the EVENTs of the dispatch loop, in the order filter yields
publish_events(c, items, publication_id, topic) ==
    LET NotMe(item) == item.subscriber # c
        to_send == SelectSeq(items, NotMe)
    IN  [k \in 1..Len(to_send) |->
            Event(to_send[k].subscriber, to_send[k].id, publication_id,
                  IF to_send[k].policy = "Strict" THEN NoTopic ELSE topic)]

\* PublishOptions as serde derives Deserialize for it: the field is read
\* from the key of its own name, a missing key gives the default, and keys
\* that name no field are skipped
PublishOptions_deserialize(dict) ==
    [acknolwedge |-> "acknolwedge" \in dict]

handle_publish(c, request_id, acknowledge, topic) ==
    IF realm[c] = None
    THEN on_message_error_terminate(c)
    ELSE LET publication_id == random_id(UsedIds)
             items == filter(subscriptions[realm[c]], topic)
         IN  /\ out' = publish_events(c, items, publication_id, topic)
                       \o (IF acknowledge
                           THEN <<Published(c, request_id, publication_id)>>
                           ELSE <<>>)
             /\ UNCHANGED <<connVars, realmVars, panicked, returned>>

\* sender.close(CloseCode::Normal): the close handshake starts
close(c) ==
    transport' = [transport EXCEPT ![c] = IF @ = "open" THEN "closing" ELSE @]

\* handle_goodbye answering in the Disconnected arm as in the Connected one
\* (C10's mutant)
handle_goodbye_again(c) ==
    CASE state[c] = "Initializing" -> on_message_error_terminate(c)
      [] state[c] \in {"Connected", "Disconnected"} ->
            /\ remove(c)
            /\ out' = <<Goodbye(c, "GoodbyeAndOut")>>
            /\ state' = [state EXCEPT ![c] = "Disconnected"]
            /\ close(c)
            /\ UNCHANGED <<realm, subscribed_topics, panicked, returned>>
      [] state[c] = "ShuttingDown" ->
            /\ out' = <<>>
            /\ state' = [state EXCEPT ![c] = "Disconnected"]
            /\ close(c)
            /\ UNCHANGED <<realm, subscribed_topics, realmVars, panicked,
                           returned>>

handle_goodbye(c) ==
    CASE state[c] = "Initializing" -> on_message_error_terminate(c)
      [] state[c] = "Connected" ->
            /\ remove(c)
            /\ out' = <<Goodbye(c, "GoodbyeAndOut")>>
            /\ state' = [state EXCEPT ![c] = "Disconnected"]
            /\ close(c)
            /\ UNCHANGED <<realm, subscribed_topics, panicked, returned>>
      [] state[c] = "ShuttingDown" ->
            /\ out' = <<>>
            /\ state' = [state EXCEPT ![c] = "Disconnected"]
            /\ close(c)
            /\ UNCHANGED <<realm, subscribed_topics, realmVars, panicked,
                           returned>>
      [] state[c] = "Disconnected" ->
            /\ out' = <<>>
            /\ UNCHANGED <<connVars, realmVars, panicked, returned>>

\* on_message reaches a handler while the listen() thread lives and the peer
\* has not closed the connection
Receives(c) ==
    /\ ~panicked
    /\ transport[c] # "closed"
    /\ steps < MaxSteps
    /\ steps' = steps + 1
    /\ UNCHANGED <<restVars, trieVars, protocol>>

OnHello ==
    \E c \in Conns, name \in HelloRealms :
        /\ Receives(c)
        /\ UNCHANGED rpcVars
        /\ last' = [Inbound(c, "HELLO") EXCEPT !.realm = name]
        /\ handle_hello(c, name)

OnSubscribe ==
    \E c \in Conns, request_id \in RequestIds, policy \in Policies,
       topic \in SubTopics :
        /\ Receives(c)
        /\ UNCHANGED rpcVars
        /\ last' = [Inbound(c, "SUBSCRIBE") EXCEPT !.request = request_id,
                        !.policy = policy, !.topic = topic]
        /\ handle_subscribe(c, request_id, policy, topic)

OnUnsubscribe ==
    \E c \in Conns, request_id \in RequestIds,
       topic_id \in {0} \cup UNION {DOMAIN subscription_ids_to_uris[r] :
                                       r \in RealmNames} :
        /\ Receives(c)
        /\ UNCHANGED rpcVars
        /\ last' = [Inbound(c, "UNSUBSCRIBE") EXCEPT !.request = request_id,
                        !.id = topic_id]
        /\ handle_unsubscribe(c, request_id, topic_id)

OnPublish ==
    \E c \in Conns, request_id \in RequestIds, dict \in PublishDicts,
       topic \in PubTopics :
        /\ Receives(c)
        /\ UNCHANGED rpcVars
        /\ last' = [Inbound(c, "PUBLISH") EXCEPT !.request = request_id,
                        !.ack = "acknowledge" \in dict, !.topic = topic]
        /\ handle_publish(c, request_id,
                          PublishOptions_deserialize(dict).acknolwedge, topic)

\* try!(send_message(..)): the frames up to the one whose send fails
sent_before(frames, fail) == SubSeq(frames, 1, fail - 1)

\* handle_publish when the send numbered `fail` of the handler returns Err:
\* try! returns it from handle_publish, on_message_error hands the WSError
\* on, and on_message returns Err to the WebSocket layer
handle_publish_send_fails(c, request_id, acknowledge, topic, fail) ==
    LET publication_id == random_id(UsedIds)
        items == filter(subscriptions[realm[c]], topic)
        frames == publish_events(c, items, publication_id, topic)
                    \o (IF acknowledge
                        THEN <<Published(c, request_id, publication_id)>>
                        ELSE <<>>)
    IN  /\ fail \in DOMAIN frames
        /\ out' = sent_before(frames, fail)
        /\ ws_result' = [step |-> steps', failed |-> frames[fail].to,
                         acknowledge |-> acknowledge, err |-> "WSError"]
        /\ UNCHANGED <<connVars, realmVars, panicked, returned>>

\* a PUBLISH during whose handling a send fails
OnPublishSendFails ==
    \E c \in Conns, request_id \in RequestIds, dict \in PublishDicts,
       topic \in PubTopics, fail \in 1..MaxSends :
        /\ ~panicked
        /\ transport[c] # "closed"
        /\ steps < MaxSteps
        /\ steps' = steps + 1
        /\ realm[c] # None
        /\ last' = [Inbound(c, "PUBLISH") EXCEPT !.request = request_id,
                        !.ack = "acknowledge" \in dict, !.topic = topic]
        /\ handle_publish_send_fails(c, request_id,
                PublishOptions_deserialize(dict).acknolwedge, topic, fail)
        /\ UNCHANGED <<trieVars, protocol, rpcVars, codecVars, clientVars,
                       lockVars>>

OnGoodbye ==
    \E c \in Conns :
        /\ Receives(c)
        /\ UNCHANGED rpcVars
        /\ last' = Inbound(c, "GOODBYE")
        /\ handle_goodbye(c)

OnRegister ==
    \E c \in Conns, request_id \in RequestIds, policy \in Policies,
       procedure \in Procedures :
        /\ Receives(c)
        /\ last' = [Inbound(c, "REGISTER") EXCEPT !.request = request_id,
                        !.policy = policy, !.topic = procedure]
        /\ handle_register(c, request_id, policy, procedure)

OnUnregister ==
    \E c \in Conns, request_id \in RequestIds,
       procedure_id \in {0} \cup UNION {DOMAIN registration_ids_to_uris[r] :
                                           r \in RealmNames} :
        /\ Receives(c)
        /\ last' = [Inbound(c, "UNREGISTER") EXCEPT !.request = request_id,
                        !.id = procedure_id]
        /\ handle_unregister(c, request_id, procedure_id)

\* the catch-all arm of handle_message: InvalidMessageType
OnOther ==
    \E c \in Conns, type \in OtherTypes :
        /\ Receives(c)
        /\ UNCHANGED rpcVars
        /\ last' = Inbound(c, type)
        /\ on_message_error_terminate(c)

\* CALL has no arm in handle_message: it falls to the catch-all arm
OnCall ==
    \E c \in Conns, request_id \in RequestIds, procedure \in Procedures :
        /\ Receives(c)
        /\ UNCHANGED rpcVars
        /\ last' = [Inbound(c, "CALL") EXCEPT !.request = request_id,
                        !.topic = procedure]
        /\ on_message_error_terminate(c)

\* The peer closes, or the connection is lost.  ConnectionHandler overrides
\* neither on_close nor on_error, so no code of the router runs.
PeerClose ==
    \E c \in Conns :
        /\ ~panicked
        /\ transport[c] # "closed"
        /\ steps < MaxSteps
        /\ steps' = steps + 1
        /\ transport' = [transport EXCEPT ![c] = "closed"]
        /\ last' = Inbound(c, "CLOSE")
        /\ out' = <<>>
        /\ UNCHANGED <<restVars, trieVars, state, realm, subscribed_topics, protocol,
                       realmVars, rpcVars, panicked, returned>>

\* Router::shutdown: sender.shutdown() for every entry of every realm's
\* connection list.  Sender::shutdown asks the WebSocket to shut down, which
\* starts the close handshake on all of its connections; no field of the
\* router changes and send_message is not called.
Shutdown ==
    /\ ~panicked
    /\ steps < MaxSteps
    /\ steps' = steps + 1
    /\ last' = [conn |-> 0, type |-> "SHUTDOWN", prev |-> None,
                prev_realm |-> None, realm |-> None, request |-> 0,
                policy |-> None, topic |-> NoTopic, id |-> 0, ack |-> FALSE,
                states |-> state, offered |-> <<>>]
    /\ transport' = IF \E r \in RealmNames : connections[r] # <<>>
                    THEN [c \in Conns |-> IF transport[c] = "open"
                                          THEN "closing" ELSE transport[c]]
                    ELSE transport
    /\ out' = <<>>
    /\ UNCHANGED <<restVars, trieVars, state, realm, subscribed_topics, protocol,
                   realmVars, rpcVars, panicked, returned>>

\* ------------------------------------------------------------ the client
\* client.rs.  One Connection connects to the router as the peer of the
\* router's connection ClientConn.  The socket takes every frame the client
\* writes; frames are delivered in the order written.
ClientConn == 1
ClientRealms == {"realm1", "nosuch"}    \* Connection::new(url, realm)
ClientTopic == <<"a">>
PeerSessionId == 5                      \* the session ID in a WELCOME of PeerSends
PeerTopicId == 9                        \* the ID in a reply of PeerSends
ErrorTypes == {"Subscribe", "Unsubscribe"}

\* a message as the client writes it
ClientMsg(type) ==
    [type |-> type, request |-> 0, id |-> 0, policy |-> "Strict",
     topic |-> NoTopic, realm |-> None, reason |-> None, dict |-> {}]

\* PublishOptions::new and the derived Serialize: the field, under its own
\* name, when it is true
PublishOptions_new(should_acknowledge) ==
    IF should_acknowledge THEN {"acknolwedge"} ELSE {}

\* what connect or a Client method returns
Returned(op, ok, error) == [op |-> op, ok |-> ok, error |-> error]

\* the caller's thread is in no Client method
Idle == [op |-> None, request |-> 0, id |-> 0]

\* HashMap::remove
Without(f, k) == [x \in DOMAIN f \ {k} |-> f[x]]

\* ConnectionInfo as connect builds it
ConnectionInfo_new ==
    [connection_state |-> "Connected",
     subscription_requests |-> <<>>,
     unsubscription_requests |-> <<>>,
     subscriptions |-> <<>>,
     registrations |-> <<>>,
     call_requests |-> <<>>,
     registration_requests |-> <<>>,
     unregistration_requests |-> <<>>,
     published_callbacks |-> <<>>,
     shutdown_complete |-> FALSE]

InitClient ==
    /\ connection_info = ConnectionInfo_new
    /\ max_session_id = 0
    /\ client_id = 0
    /\ connecting = "new"
    /\ recv_loop = "none"
    /\ caller = Idle
    /\ to_router = <<>>
    /\ to_client = <<>>
    /\ resolved = [r \in 1..MaxRequests |-> 0]
    /\ shutdown_resolved = 0
    /\ result = Returned(None, TRUE, None)
    /\ received = Frame(ClientConn, None)
    /\ injected = 0

\* the Client methods that wait for a reply
RequestOps ==
    {"subscribe_with_pattern", "register_with_pattern",
     "publish_and_acknowledge", "unsubscribe", "unregister"}

\* the pending-request map a method puts its completion into
RequestMap(op) ==
    CASE op = "subscribe_with_pattern" -> "subscription_requests"
      [] op = "register_with_pattern" -> "registration_requests"
      [] op = "publish_and_acknowledge" -> "published_callbacks"
      [] op = "unsubscribe" -> "unsubscription_requests"
      [] op = "unregister" -> "unregistration_requests"

\* whether the method inserts its completion before it sends
InsertsFirst(op) ==
    op \in {"subscribe_with_pattern", "register_with_pattern",
            "publish_and_acknowledge"}

\* the message a method sends
RequestMessage(op, request_id, id) ==
    CASE op = "subscribe_with_pattern" ->
            [ClientMsg("SUBSCRIBE") EXCEPT !.request = request_id,
                                           !.topic = ClientTopic]
      [] op = "register_with_pattern" ->
            [ClientMsg("REGISTER") EXCEPT !.request = request_id,
                                          !.topic = ClientTopic]
      [] op = "publish_and_acknowledge" ->
            [ClientMsg("PUBLISH") EXCEPT !.request = request_id,
                                         !.topic = ClientTopic,
                                         !.dict = PublishOptions_new(TRUE)]
      [] op = "unsubscribe" ->
            [ClientMsg("UNSUBSCRIBE") EXCEPT !.request = request_id, !.id = id]
      [] op = "unregister" ->
            [ClientMsg("UNREGISTER") EXCEPT !.request = request_id, !.id = id]

\* what the completion's and_then closure holds: the callback of this call
\* (named by the request ID), or the ID of the handle given up
EntryValue(op, request_id, id) ==
    IF op \in {"unsubscribe", "unregister"} THEN id ELSE request_id

\* the IDs of the Subscription or Registration handles the caller may pass
HandleIds(op) ==
    IF op = "unsubscribe" THEN {0} \cup DOMAIN connection_info.subscriptions
    ELSE IF op = "unregister" THEN {0} \cup DOMAIN connection_info.registrations
    ELSE {0}

\* map.insert(request_id, complete)
insert_request(op, request_id, id) ==
    connection_info' =
        [connection_info EXCEPT ![RequestMap(op)] =
            (request_id :> EntryValue(op, request_id, id)) @@ @]

\* self.send_message(message)
client_send(m) == to_router' = Append(to_router, m)

\* A Client method up to the point between its insert and its send:
\* get_next_session_id, then the insert (subscribe_with_pattern,
\* register_with_pattern, publish_and_acknowledge) or the send (unsubscribe,
\* unregister).
CallerBegin ==
    \E op \in RequestOps :
        \E id \in HandleIds(op) :
            /\ connecting = "ok"
            /\ caller = Idle
            /\ max_session_id < MaxRequests
            /\ LET request_id == max_session_id + 1
               IN  /\ max_session_id' = request_id
                   /\ caller' = [op |-> op, request |-> request_id, id |-> id]
                   /\ IF InsertsFirst(op)
                      THEN /\ insert_request(op, request_id, id)
                           /\ UNCHANGED to_router
                      ELSE /\ client_send(RequestMessage(op, request_id, id))
                           /\ UNCHANGED connection_info
            /\ UNCHANGED <<client_id, connecting, recv_loop, to_client, resolved,
                           shutdown_resolved, result, received, injected>>
            /\ UNCHANGED <<trieVars, steps, routerVars, codecVars, lockVars, sendVars>>

\* ... and the rest of the method: the send, or the insert; Ok(future)
CallerEnd ==
    /\ caller # Idle
    /\ IF InsertsFirst(caller.op)
       THEN /\ client_send(RequestMessage(caller.op, caller.request, caller.id))
            /\ UNCHANGED connection_info
       ELSE /\ insert_request(caller.op, caller.request, caller.id)
            /\ UNCHANGED to_router
    /\ result' = Returned(caller.op, TRUE, None)
    /\ caller' = Idle
    /\ UNCHANGED <<max_session_id, client_id, connecting, recv_loop, to_client,
                   resolved, shutdown_resolved, received, injected>>
    /\ UNCHANGED <<trieVars, steps, routerVars, codecVars, lockVars, sendVars>>

\* unsubscribe or unregister when its send returns Err: send_message_json
\* tries a close frame and try! returns the WebSocketError, before the insert
CallerBeginSendFails ==
    \E op \in RequestOps \ {x \in RequestOps : InsertsFirst(x)} :
        /\ connecting = "ok"
        /\ caller = Idle
        /\ max_session_id < MaxRequests
        /\ max_session_id' = max_session_id + 1
        /\ result' = Returned(op, FALSE, "WebSocketError")
        /\ UNCHANGED <<connection_info, client_id, connecting, recv_loop, caller,
                       to_router, to_client, resolved, shutdown_resolved,
                       received, injected>>
        /\ UNCHANGED <<trieVars, steps, routerVars, codecVars, lockVars, sendVars>>

\* subscribe_with_pattern, register_with_pattern or publish_and_acknowledge
\* when its send returns Err: try! returns the WebSocketError, after the
\* insert
CallerEndSendFails ==
    /\ caller # Idle
    /\ InsertsFirst(caller.op)
    /\ result' = Returned(caller.op, FALSE, "WebSocketError")
    /\ caller' = Idle
    /\ UNCHANGED <<connection_info, max_session_id, client_id, connecting,
                   recv_loop, to_router, to_client, resolved, shutdown_resolved,
                   received, injected>>
    /\ UNCHANGED <<trieVars, steps, routerVars, codecVars, lockVars, sendVars>>

\* Client::shutdown holding every answer Ok (C27's mutant)
shutdown_always ==
    /\ connection_info' = [connection_info EXCEPT
                                !.connection_state = "ShuttingDown",
                                !.shutdown_complete = TRUE]
    /\ client_send([ClientMsg("GOODBYE") EXCEPT !.reason = "SystemShutdown"])
    /\ result' = Returned("shutdown", TRUE, None)

\* Client::shutdown; the lock on connection_state is held throughout
shutdown ==
    IF connection_info.connection_state = "Connected"
    THEN /\ connection_info' = [connection_info EXCEPT
                                    !.connection_state = "ShuttingDown",
                                    !.shutdown_complete = TRUE]
         /\ client_send([ClientMsg("GOODBYE") EXCEPT !.reason = "SystemShutdown"])
         /\ result' = Returned("shutdown", TRUE, None)
    ELSE /\ result' = Returned("shutdown", FALSE, "InvalidState")
         /\ UNCHANGED <<connection_info, to_router>>

ClientShutdown ==
    /\ connecting = "ok"
    /\ caller = Idle
    /\ shutdown
    /\ UNCHANGED <<max_session_id, client_id, connecting, recv_loop, caller,
                   to_client, resolved, shutdown_resolved, received, injected>>
    /\ UNCHANGED <<trieVars, steps, routerVars, codecVars, lockVars, sendVars>>

\* Connection::connect up to the HELLO; the upgrade has been answered
Connect ==
    \E name \in ClientRealms :
        /\ connecting = "new"
        /\ connecting' = "awaiting"
        /\ connection_info' = ConnectionInfo_new
        /\ client_send([ClientMsg("HELLO") EXCEPT !.realm = name])
        /\ UNCHANGED <<max_session_id, client_id, recv_loop, caller, to_client,
                       resolved, shutdown_resolved, result, received, injected>>
        /\ UNCHANGED <<trieVars, steps, routerVars, codecVars, lockVars, sendVars>>

\* handle_welcome_message, for the first frame that is neither ping nor
\* pong: a close frame, the end of the stream or a receive error is an
\* error, and so is a payload that does not decode
handle_welcome_message(m) ==
    IF m.type = "CLOSE" THEN [ok |-> FALSE, error |-> "ConnectionLost"]
    ELSE IF m.type = "GARBAGE" THEN [ok |-> FALSE, error |-> "JSONError"]
    ELSE [ok |-> TRUE, error |-> None]

\* the rest of connect taking whatever message decodes for the WELCOME
\* (C29's mutant)
connect_any(m) ==
    IF ~handle_welcome_message(m).ok
    THEN /\ connecting' = "err"
         /\ result' = Returned("connect", FALSE, handle_welcome_message(m).error)
         /\ UNCHANGED <<client_id, recv_loop>>
    ELSE /\ connecting' = "ok"
         /\ client_id' = m.id
         /\ recv_loop' = "running"
         /\ result' = Returned("connect", TRUE, None)

\* the rest of connect: the match on the welcome message, start_recv_loop
\* and Ok(Client)
connect(m) ==
    IF ~handle_welcome_message(m).ok
    THEN /\ connecting' = "err"
         /\ result' = Returned("connect", FALSE, handle_welcome_message(m).error)
         /\ UNCHANGED <<client_id, recv_loop>>
    ELSE IF m.type = "WELCOME"
    THEN /\ connecting' = "ok"
         /\ client_id' = m.id
         /\ recv_loop' = "running"
         /\ result' = Returned("connect", TRUE, None)
    ELSE /\ connecting' = "err"
         /\ result' = Returned("connect", FALSE,
                               IF m.type = "ABORT" THEN "ConnectionLost"
                               ELSE "UnexpectedMessage")
         /\ UNCHANGED <<client_id, recv_loop>>

AwaitWelcome ==
    /\ connecting = "awaiting"
    /\ to_client # <<>>
    /\ to_client' = Tail(to_client)
    /\ received' = Head(to_client)
    /\ connect(Head(to_client))
    /\ UNCHANGED <<connection_info, max_session_id, caller, to_router, resolved,
                   shutdown_resolved, injected>>
    /\ UNCHANGED <<trieVars, steps, routerVars, codecVars, lockVars, sendVars>>

ReplyTypes ==
    {"SUBSCRIBED", "UNSUBSCRIBED", "PUBLISHED", "REGISTERED", "UNREGISTERED"}

\* the pending-request map handle_message looks a reply up in
ReplyMap(type) ==
    CASE type = "SUBSCRIBED" -> "subscription_requests"
      [] type = "UNSUBSCRIBED" -> "unsubscription_requests"
      [] type = "PUBLISHED" -> "published_callbacks"
      [] type = "REGISTERED" -> "registration_requests"
      [] type = "UNREGISTERED" -> "unregistration_requests"

\* the promise looked up with get and completed, its entry left in the map
\* (C25's mutant)
complete_kept(m) ==
    LET v == connection_info[ReplyMap(m.type)][m.request]
    IN  CASE m.type = "SUBSCRIBED" ->
                [connection_info EXCEPT !.subscriptions = (m.id :> v) @@ @]
          [] m.type = "UNSUBSCRIBED" ->
                [connection_info EXCEPT !.subscriptions = Without(@, v)]
          [] m.type = "REGISTERED" ->
                [connection_info EXCEPT !.registrations = (m.id :> v) @@ @]
          [] m.type = "UNREGISTERED" ->
                [connection_info EXCEPT !.registrations = Without(@, v)]
          [] m.type = "PUBLISHED" -> connection_info

\* map.remove(&request_id) found the promise: promise.complete(..), which
\* runs the and_then closure the method attached
complete(m) ==
    LET map == ReplyMap(m.type)
        v == connection_info[map][m.request]
        removed == [connection_info EXCEPT ![map] = Without(@, m.request)]
    IN  CASE m.type = "SUBSCRIBED" ->
                [removed EXCEPT !.subscriptions = (m.id :> v) @@ @]
          [] m.type = "UNSUBSCRIBED" ->
                [removed EXCEPT !.subscriptions = Without(@, v)]
          [] m.type = "REGISTERED" ->
                [removed EXCEPT !.registrations = (m.id :> v) @@ @]
          [] m.type = "UNREGISTERED" ->
                [removed EXCEPT !.registrations = Without(@, v)]
          [] m.type = "PUBLISHED" -> removed

\* handle_message completing the shutdown promise through a reference, the
\* Option left Some (C28's mutant)
handle_message_untaken(m) ==
    IF m.type \in ReplyTypes
    THEN /\ IF m.request \in DOMAIN connection_info[ReplyMap(m.type)]
            THEN /\ connection_info' = complete(m)
                 /\ resolved' = [resolved EXCEPT ![m.request] = @ + 1]
            ELSE UNCHANGED <<connection_info, resolved>>
         /\ UNCHANGED <<recv_loop, to_router, shutdown_resolved>>
    ELSE IF m.type = "GOODBYE"
    THEN /\ recv_loop' = "stopped"
         /\ UNCHANGED resolved
         /\ CASE connection_info.connection_state = "Connected" ->
                    /\ client_send([ClientMsg("GOODBYE") EXCEPT
                                        !.reason = "GoodbyeAndOut"])
                    /\ UNCHANGED <<connection_info, shutdown_resolved>>
              [] connection_info.connection_state = "ShuttingDown" ->
                    /\ shutdown_resolved' =
                            shutdown_resolved
                            + (IF connection_info.shutdown_complete THEN 1 ELSE 0)
                    /\ UNCHANGED <<connection_info, to_router>>
              [] connection_info.connection_state = "Disconnected" ->
                    UNCHANGED <<connection_info, shutdown_resolved, to_router>>
    ELSE UNCHANGED <<connection_info, resolved, recv_loop, to_router,
                     shutdown_resolved>>

\* Connection::handle_message; recv_loop becomes "stopped" where it returns
\* false
handle_message(m) ==
    IF m.type \in ReplyTypes
    THEN /\ IF m.request \in DOMAIN connection_info[ReplyMap(m.type)]
            THEN /\ connection_info' = complete(m)
                 /\ resolved' = [resolved EXCEPT ![m.request] = @ + 1]
            ELSE UNCHANGED <<connection_info, resolved>>
         /\ UNCHANGED <<recv_loop, to_router, shutdown_resolved>>
    ELSE IF m.type = "GOODBYE"
    THEN /\ recv_loop' = "stopped"
         /\ UNCHANGED resolved
         /\ CASE connection_info.connection_state = "Connected" ->
                    /\ client_send([ClientMsg("GOODBYE") EXCEPT
                                        !.reason = "GoodbyeAndOut"])
                    /\ UNCHANGED <<connection_info, shutdown_resolved>>
              [] connection_info.connection_state = "ShuttingDown" ->
                    /\ connection_info' =
                            [connection_info EXCEPT !.shutdown_complete = FALSE]
                    /\ shutdown_resolved' =
                            shutdown_resolved
                            + (IF connection_info.shutdown_complete THEN 1 ELSE 0)
                    /\ UNCHANGED to_router
              [] connection_info.connection_state = "Disconnected" ->
                    UNCHANGED <<connection_info, shutdown_resolved, to_router>>
    ELSE UNCHANGED <<connection_info, resolved, recv_loop, to_router,
                     shutdown_resolved>>

\* one turn of the loop of start_recv_loop
RecvLoop ==
    /\ recv_loop = "running"
    /\ to_client # <<>>
    /\ to_client' = Tail(to_client)
    /\ received' = Head(to_client)
    /\ LET m == Head(to_client)
       IN  IF m.type = "CLOSE"
           THEN /\ client_send(ClientMsg("CLOSE"))
                /\ recv_loop' = "stopped"
                /\ UNCHANGED <<connection_info, resolved, shutdown_resolved>>
           ELSE IF m.type = "GARBAGE"
           THEN UNCHANGED <<connection_info, resolved, recv_loop, to_router,
                            shutdown_resolved>>
           ELSE handle_message(m)
    /\ UNCHANGED <<max_session_id, client_id, connecting, caller, result,
                   injected>>
    /\ UNCHANGED <<trieVars, steps, routerVars, codecVars, lockVars, sendVars>>

\* the end of start_recv_loop with connection_state left as it is (C30's
\* mutant)
Teardown_state_kept ==
    /\ recv_loop = "stopped"
    /\ recv_loop' = "done"
    /\ connection_info' = [connection_info EXCEPT !.shutdown_complete = FALSE]
    /\ shutdown_resolved' =
            shutdown_resolved + (IF connection_info.shutdown_complete THEN 1 ELSE 0)
    /\ client_send(ClientMsg("CLOSE"))
    /\ UNCHANGED <<max_session_id, client_id, connecting, caller, to_client,
                   resolved, result, received, injected>>
    /\ UNCHANGED <<trieVars, steps, routerVars, codecVars, lockVars, sendVars>>

\* what start_recv_loop does after the loop
Teardown ==
    /\ recv_loop = "stopped"
    /\ recv_loop' = "done"
    /\ connection_info' = [connection_info EXCEPT
                                !.connection_state = "Disconnected",
                                !.shutdown_complete = FALSE]
    /\ shutdown_resolved' =
            shutdown_resolved + (IF connection_info.shutdown_complete THEN 1 ELSE 0)
    /\ client_send(ClientMsg("CLOSE"))
    /\ UNCHANGED <<max_session_id, client_id, connecting, caller, to_client,
                   resolved, result, received, injected>>
    /\ UNCHANGED <<trieVars, steps, routerVars, codecVars, lockVars, sendVars>>

\* incoming_messages yields Err, the transport having failed: a close frame
\* is tried, its result dropped, and the loop is left
RecvFails ==
    /\ recv_loop = "running"
    /\ recv_loop' = "stopped"
    /\ UNCHANGED <<connection_info, max_session_id, client_id, connecting,
                   caller, to_router, to_client, resolved, shutdown_resolved,
                   result, received, injected>>
    /\ UNCHANGED <<trieVars, steps, routerVars, codecVars, lockVars, sendVars>>

\* what start_recv_loop does after the loop when the send of the close
\* frame returns Err: the unwrap() panics and the thread ends there, with
\* connection_state set and shutdown_complete not looked at
TeardownSendFails ==
    /\ recv_loop = "stopped"
    /\ recv_loop' = "panicked"
    /\ connection_info' = [connection_info EXCEPT
                                !.connection_state = "Disconnected"]
    /\ UNCHANGED <<max_session_id, client_id, connecting, caller, to_router,
                   to_client, resolved, shutdown_resolved, result, received,
                   injected>>
    /\ UNCHANGED <<trieVars, steps, routerVars, codecVars, lockVars, sendVars>>

\* The router takes the oldest frame the client wrote: on_message and
\* handle_message for the connection ClientConn; what it sends to that
\* connection is on its way to the client, and so is the close frame when
\* it starts the close handshake.
RouterHandles ==
    /\ to_router # <<>>
    /\ ~panicked
    /\ transport[ClientConn] # "closed"
    /\ LET m == Head(to_router)
           c == ClientConn
           ToClient(f) == f.to = c
       IN  /\ to_router' = Tail(to_router)
           /\ last' = [Inbound(c, m.type) EXCEPT
                            !.realm = m.realm, !.request = m.request,
                            !.policy = m.policy, !.topic = m.topic, !.id = m.id,
                            !.ack = "acknowledge" \in m.dict]
           /\ CASE m.type = "HELLO" ->
                        handle_hello(c, m.realm) /\ UNCHANGED rpcVars
                [] m.type = "SUBSCRIBE" ->
                        /\ handle_subscribe(c, m.request, m.policy, m.topic)
                        /\ UNCHANGED rpcVars
                [] m.type = "UNSUBSCRIBE" ->
                        handle_unsubscribe(c, m.request, m.id) /\ UNCHANGED rpcVars
                [] m.type = "PUBLISH" ->
                        /\ handle_publish(c, m.request,
                                PublishOptions_deserialize(m.dict).acknolwedge,
                                m.topic)
                        /\ UNCHANGED rpcVars
                [] m.type = "REGISTER" ->
                        handle_register(c, m.request, m.policy, m.topic)
                [] m.type = "UNREGISTER" ->
                        handle_unregister(c, m.request, m.id)
                [] m.type = "GOODBYE" ->
                        handle_goodbye(c) /\ UNCHANGED rpcVars
                [] m.type = "CLOSE" ->
                        /\ transport' = [transport EXCEPT ![c] = "closed"]
                        /\ out' = <<>>
                        /\ UNCHANGED <<state, realm, subscribed_topics, realmVars,
                                       rpcVars, panicked, returned>>
           /\ to_client' =
                to_client \o SelectSeq(out', ToClient)
                \o (IF transport[c] = "open" /\ transport'[c] = "closing"
                    THEN <<Frame(c, "CLOSE")>> ELSE <<>>)
    /\ UNCHANGED <<connection_info, max_session_id, client_id, connecting,
                   recv_loop, caller, resolved, shutdown_resolved, result,
                   received, injected>>
    /\ UNCHANGED <<trieVars, steps, protocol, codecVars, lockVars, sendVars>>

\* the frames a peer of any kind may send
PeerFrames ==
    {[Frame(ClientConn, "WELCOME") EXCEPT !.id = PeerSessionId],
     Frame(ClientConn, "ABORT"),
     Goodbye(ClientConn, "SystemShutdown"),
     Frame(ClientConn, "CLOSE"),
     Frame(ClientConn, "GARBAGE")}
    \cup {[Frame(ClientConn, t) EXCEPT !.request = r, !.id = PeerTopicId] :
            t \in ReplyTypes, r \in 1..MaxRequests}
    \cup {ErrorMsg(ClientConn, t, r, "InvalidURI") :
            t \in ErrorTypes, r \in 1..MaxRequests}

\* A frame reaches the client that the router of this module did not send
\* in answer to it: the client reads whatever its peer writes.
PeerSends ==
    \E f \in PeerFrames :
        /\ connecting # "new"
        /\ injected < MaxInjected
        /\ injected' = injected + 1
        /\ to_client' = Append(to_client, f)
        /\ UNCHANGED <<connection_info, max_session_id, client_id, connecting,
                       recv_loop, caller, to_router, resolved, shutdown_resolved,
                       result, received>>
        /\ UNCHANGED <<trieVars, steps, routerVars, codecVars, lockVars, sendVars>>

NextClient ==
    \/ Connect
    \/ AwaitWelcome
    \/ CallerBegin
    \/ CallerEnd
    \/ ClientShutdown
    \/ RecvLoop
    \/ Teardown
    \/ RouterHandles
    \/ PeerSends

\* ---------------------------------------------------- the router's mutexes
\* RouterInfo.realms, every Realm and every connection's ConnectionInfo sit
\* in a std::sync::Mutex.  What a call does to them is held as the sequence
\* of its lock and unlock operations, in the order the code makes them: a
\* MutexGuard is released at the end of its scope, a temporary guard at the
\* end of its statement (of the whole loop, in the head of a `for`; of the
\* condition, in an `if`).  A lock() of a mutex that is held, by the caller's
\* own thread too, waits.  Each connection's handler is given a thread of its
\* own; Router::shutdown is called from one more.  Of the router's data the
\* threads keep ConnectionHandler.realm and Realm.connections, which decide
\* the locks a call takes.
ShutdownThread == 0
Threads == Conns \cup {ShutdownThread}

RealmsLock == <<"realms", "">>
RealmLock(r) == <<"realm", r>>
InfoLock(c) == <<"info", ToString(c)>>

\* one operation of thread c on the mutex l, or, under the realm lock l, on
\* the realm's data
Op(op, l, c) == [op |-> op, lock |-> l, conn |-> c]

\* let guard = mutex.lock().unwrap(); body; drop(guard)
Guarded(l, body) == <<Op("lock", l, 0)>> \o body \o <<Op("unlock", l, 0)>>

\* send_message: the connection-info lock, for the whole of the send
send_message_locks(c) == Guarded(InfoLock(c), <<>>)

\* PatternData::get_id of a connection: its ID is behind its mutex
get_id_locks(c) == Guarded(InfoLock(c), <<>>)

\* retain(|x| x.get_id() != id) over a bucket, and the loops of
\* Router::shutdown and of remove over Realm.connections: one connection's
\* lock after the other
RECURSIVE each_locks(_)
each_locks(list) ==
    IF list = <<>> THEN <<>>
    ELSE Guarded(InfoLock(Head(list)), <<>>) \o each_locks(Tail(list))

\* the loop of handle_publish over filter's items
RECURSIVE event_locks(_, _)
event_locks(c, subs) ==
    IF subs = <<>> THEN <<>>
    ELSE Guarded(InfoLock(Head(subs)), <<>>)
            \o (IF Head(subs) # c THEN send_message_locks(Head(subs)) ELSE <<>>)
            \o event_locks(c, Tail(subs))

\* the members of list at the positions in keep, in order
RECURSIVE Kept(_, _, _)
Kept(list, keep, k) ==
    IF k > Len(list) THEN <<>>
    ELSE (IF k \in keep THEN <<list[k]>> ELSE <<>>) \o Kept(list, keep, k + 1)

\* the owners a bucket of the realm's trie may hold, or filter may yield:
\* members of the realm
SubLists(list) == {Kept(list, keep, 1) : keep \in SUBSET DOMAIN list}

\* set_realm: the realm map for the lookup, the realm for the push
set_realm_locks(c, r) ==
    Guarded(RealmsLock, <<>>) \o Guarded(RealmLock(r), <<Op("push", RealmLock(r), c)>>)

\* handle_hello
handle_hello_locks(c, r) ==
    Guarded(InfoLock(c), <<>>) \o set_realm_locks(c, r) \o send_message_locks(c)

\* handle_subscribe and handle_register: the reply is sent under the realm
\* lock; an Err is answered by send_error after the handler has returned
handle_subscribe_locks(c, r, ok) ==
    IF ok THEN Guarded(RealmLock(r), send_message_locks(c))
    ELSE Guarded(RealmLock(r), <<>>) \o send_message_locks(c)

\* handle_unsubscribe and handle_unregister: unsubscribe_with reads the
\* caller's ID and remove_subscription retains over the bucket
handle_unsubscribe_locks(c, r, found) ==
    IF found
    THEN Guarded(RealmLock(r),
                 get_id_locks(c) \o <<Op("bucket", RealmLock(r), c)>>
                    \o send_message_locks(c))
    ELSE Guarded(RealmLock(r), <<>>) \o send_message_locks(c)

handle_publish_locks(c, r, ack) ==
    Guarded(RealmLock(r),
            Guarded(InfoLock(c), <<>>)
                \o <<Op("events", RealmLock(r), c)>>
                \o (IF ack THEN send_message_locks(c) ELSE <<>>))

\* remove, of a handler whose realm is r, with or without a subscribed topic
remove_locks(c, r, subscribed) ==
    Guarded(RealmLock(r),
            (IF subscribed
             THEN get_id_locks(c) \o <<Op("bucket", RealmLock(r), c)>>
             ELSE <<>>)
                \o Guarded(InfoLock(c), <<>>)
                \o <<Op("retain", RealmLock(r), c)>>)

\* handle_goodbye with the Connected arm keeping the guard of its first
\* lock for the whole arm (C36's mutant)
handle_goodbye_locks_held(c, r, st, subscribed) ==
    IF st = "Connected"
    THEN Guarded(InfoLock(c),
                 remove_locks(c, r, subscribed) \o send_message_locks(c))
    ELSE Guarded(InfoLock(c), <<>>)

\* handle_goodbye, by the state it reads
handle_goodbye_locks(c, r, st, subscribed) ==
    Guarded(InfoLock(c), <<>>)
        \o (IF st = "Connected"
            THEN remove_locks(c, r, subscribed)
                    \o send_message_locks(c)
                    \o Guarded(InfoLock(c), <<>>)
            ELSE IF st = "ShuttingDown" THEN Guarded(InfoLock(c), <<>>)
            ELSE <<>>)

\* Router::shutdown: the realm map for the whole call, each realm for the
\* loop over its connections; first and second are the realms in the order
\* the HashMap yields them
shutdown_locks(first, second) ==
    Guarded(RealmsLock,
            Guarded(RealmLock(first), <<Op("each", RealmLock(first), 0)>>)
                \o Guarded(RealmLock(second), <<Op("each", RealmLock(second), 0)>>))

\* what the handler of connection c may be called to do: handle_hello of a
\* client's first message, and any of the others once the handler has a
\* realm (without one they take no realm lock)
HandlerPrograms(c) ==
    IF realm[c] = None
    THEN {handle_hello_locks(c, r) : r \in RealmNames}
    ELSE {handle_subscribe_locks(c, realm[c], ok) : ok \in BOOLEAN}
            \cup {handle_unsubscribe_locks(c, realm[c], found) : found \in BOOLEAN}
            \cup {handle_publish_locks(c, realm[c], ack) : ack \in BOOLEAN}
            \cup {handle_goodbye_locks(c, realm[c], st, subscribed) :
                    st \in {"Connected", "ShuttingDown"}, subscribed \in BOOLEAN}
            \cup {remove_locks(c, realm[c], subscribed) : subscribed \in BOOLEAN}

ShutdownPrograms ==
    {shutdown_locks(o[1], o[2]) :
        o \in {x \in RealmNames \X RealmNames : x[1] # x[2]}}

InitLocks ==
    /\ program = [t \in Threads |-> <<>>]
    /\ held = [t \in Threads |-> <<>>]

\* some thread holds the lock
Taken(l) == \E u \in Threads : \E k \in DOMAIN held[u] : held[u][k] = l

\* what the lock model leaves alone
lockFrame ==
    <<trieVars, steps, state, subscribed_topics, transport, protocol,
      subscriptions, subscription_ids_to_uris, rpcVars, panicked, last, out,
      returned, codecVars, clientVars, sendVars>>

\* a message reaches the handler of a connection whose thread is free
HandlerBegin ==
    \E c \in Conns :
        \E p \in HandlerPrograms(c) :
            /\ program[c] = <<>>
            /\ program' = [program EXCEPT ![c] = p]
            /\ UNCHANGED <<held, realm, connections, lockFrame>>

\* Router::shutdown is called
ShutdownBegin ==
    \E p \in ShutdownPrograms :
        /\ program[ShutdownThread] = <<>>
        /\ program' = [program EXCEPT ![ShutdownThread] = p]
        /\ UNCHANGED <<held, realm, connections, lockFrame>>

\* lock() returns once the mutex is free
LockTake ==
    \E t \in Threads :
        /\ program[t] # <<>>
        /\ Head(program[t]).op = "lock"
        /\ ~Taken(Head(program[t]).lock)
        /\ held' = [held EXCEPT ![t] = Append(@, Head(program[t]).lock)]
        /\ program' = [program EXCEPT ![t] = Tail(@)]
        /\ UNCHANGED <<realm, connections, lockFrame>>

\* a guard is dropped
LockDrop ==
    \E t \in Threads :
        /\ program[t] # <<>>
        /\ Head(program[t]).op = "unlock"
        /\ held' = [held EXCEPT ![t] = SubSeq(@, 1, Len(@) - 1)]
        /\ program' = [program EXCEPT ![t] = Tail(@)]
        /\ UNCHANGED <<realm, connections, lockFrame>>

\* under the realm lock, a thread comes to the realm's data: set_realm
\* pushes the connection; remove retains the others, reading each one's ID;
\* Router::shutdown walks the connections; remove_subscription walks a
\* bucket and handle_publish the items of filter
RealmStep ==
    \E t \in Threads :
        /\ program[t] # <<>>
        /\ Head(program[t]).op \notin {"lock", "unlock"}
        /\ LET o == Head(program[t])
               r == o.lock[2]
               c == o.conn
               IsOther(x) == x # c
           IN  CASE o.op = "push" ->
                      /\ connections' = [connections EXCEPT ![r] = Append(@, c)]
                      /\ realm' = [realm EXCEPT ![c] = r]
                      /\ program' = [program EXCEPT ![t] = Tail(@)]
                 [] o.op = "retain" ->
                      /\ connections' = [connections EXCEPT
                                            ![r] = SelectSeq(@, IsOther)]
                      /\ program' = [program EXCEPT
                                        ![t] = each_locks(connections[r]) \o Tail(@)]
                      /\ UNCHANGED realm
                 [] o.op = "each" ->
                      /\ program' = [program EXCEPT
                                        ![t] = each_locks(connections[r]) \o Tail(@)]
                      /\ UNCHANGED <<realm, connections>>
                 [] o.op = "bucket" ->
                      /\ \E b \in SubLists(connections[r]) :
                            program' = [program EXCEPT
                                            ![t] = each_locks(b) \o Tail(@)]
                      /\ UNCHANGED <<realm, connections>>
                 [] o.op = "events" ->
                      /\ \E subs \in SubLists(connections[r]) :
                            program' = [program EXCEPT
                                            ![t] = event_locks(c, subs) \o Tail(@)]
                      /\ UNCHANGED <<realm, connections>>
        /\ UNCHANGED <<held, lockFrame>>

NextLocks == HandlerBegin \/ ShutdownBegin \/ LockTake \/ LockDrop \/ RealmStep

\* ------------------------------------------------- the stand-alone trie
InitTrie ==
    /\ root = (<<>> :> PatternNode_new(Owners))
    /\ ret = [op |-> "new", topic |-> <<>>, subscriber |-> 0, policy |-> None,
              is_prefix |-> FALSE, ok |-> TRUE, id |-> 0, reason |-> "none"]

\* Router::new, add_realm for every realm name, and NumConns accepted
\* connections: ConnectionHandler as Router::listen builds it
realm_root(name) ==
    IF name = "realm1" THEN PatternNode_new(Conns)
    ELSE PatternNode_new(Conns \cup {NumConns + 1, NumConns + 2})

\* the root of the realm's registration trie, made after the realm's
\* subscription trie
registration_root(name) ==
    IF name = "realm1"
    THEN PatternNode_new(Conns \cup (NumConns + 1)..(NumConns + 4))
    ELSE PatternNode_new(Conns \cup (NumConns + 1)..(NumConns + 6))

InitRouter ==
    /\ state = [c \in Conns |-> "Initializing"]
    /\ realm = [c \in Conns |-> None]
    /\ subscribed_topics = [c \in Conns |-> <<>>]
    /\ transport = [c \in Conns |-> "open"]
    /\ connections = [r \in RealmNames |-> <<>>]
    /\ subscriptions = [r \in RealmNames |-> (<<>> :> realm_root(r))]
    /\ subscription_ids_to_uris = [r \in RealmNames |-> <<>>]
    /\ registrations = [r \in RealmNames |-> (<<>> :> registration_root(r))]
    /\ registration_ids_to_uris = [r \in RealmNames |-> <<>>]
    /\ registered_procedures = [c \in Conns |-> <<>>]
    /\ panicked = FALSE
    /\ last = [conn |-> 0, type |-> None, prev |-> None, prev_realm |-> None,
               realm |-> None, request |-> 0, policy |-> None, topic |-> NoTopic,
               id |-> 0, ack |-> FALSE, states |-> <<>>, offered |-> <<>>]
    /\ out = <<>>
    /\ returned = [c \in Conns |-> {}]

\* no message has been given to the codec
InitCodec ==
    /\ message = NoMessage
    /\ encoded = <<>>
    /\ decoded = Undecoded

\* no send has failed
InitSend ==
    ws_result = [step |-> 0, failed |-> 0, acknowledge |-> FALSE, err |-> None]

InitRest == InitCodec /\ InitClient /\ InitLocks /\ InitSend

\* every connection has been upgraded, offering wamp.2.json alone
Init ==
    /\ InitTrie
    /\ InitRest
    /\ InitRouter
    /\ protocol = [c \in Conns |-> WAMP_JSON]
    /\ steps = 0

\* the connections as Router::listen builds their handlers, before the
\* upgrade request of any of them has come
InitListen ==
    /\ InitTrie
    /\ InitRest
    /\ state = [c \in Conns |-> "Initializing"]
    /\ realm = [c \in Conns |-> None]
    /\ subscribed_topics = [c \in Conns |-> <<>>]
    /\ transport = [c \in Conns |-> "connecting"]
    /\ protocol = [c \in Conns |-> ""]
    /\ connections = [r \in RealmNames |-> <<>>]
    /\ subscriptions = [r \in RealmNames |-> (<<>> :> realm_root(r))]
    /\ subscription_ids_to_uris = [r \in RealmNames |-> <<>>]
    /\ registrations = [r \in RealmNames |-> (<<>> :> registration_root(r))]
    /\ registration_ids_to_uris = [r \in RealmNames |-> <<>>]
    /\ registered_procedures = [c \in Conns |-> <<>>]
    /\ panicked = FALSE
    /\ last = [conn |-> 0, type |-> None, prev |-> None, prev_realm |-> None,
               realm |-> None, request |-> 0, policy |-> None, topic |-> NoTopic,
               id |-> 0, ack |-> FALSE, states |-> <<>>, offered |-> <<>>]
    /\ out = <<>>
    /\ returned = [c \in Conns |-> {}]
    /\ steps = 0

IsWamp(p) == p \in {WAMP_JSON, WAMP_MSGPACK}

\* process_protocol: the first offered sub-protocol that is one of the two
process_protocol(protocols) ==
    LET hits == SelectSeq(protocols, IsWamp)
    IN  IF hits = <<>>
        THEN [ok |-> FALSE, protocol |-> ""]
        ELSE [ok |-> TRUE, protocol |-> hits[1]]

\* Handler::on_request: the upgrade is answered with the chosen sub-protocol,
\* or fails with a Protocol error and the connection is dropped
OnRequest ==
    \E c \in Conns, offered \in Offers :
        /\ transport[c] = "connecting"
        /\ last' = [Inbound(c, "REQUEST") EXCEPT !.offered = offered]
        /\ LET r == process_protocol(offered)
           IN  IF r.ok
               THEN /\ protocol' = [protocol EXCEPT ![c] = r.protocol]
                    /\ transport' = [transport EXCEPT ![c] = "open"]
               ELSE /\ transport' = [transport EXCEPT ![c] = "closed"]
                    /\ UNCHANGED protocol
        /\ out' = <<>>
        /\ UNCHANGED <<restVars, trieVars, steps, state, realm, subscribed_topics,
                       realmVars, rpcVars, panicked, returned>>

NextUpgrade == OnRequest

SpecUpgrade == InitListen /\ [][NextUpgrade]_vars

TrieSubscribe ==
    \E topic \in Patterns, o \in Owners, policy \in Policies :
        /\ steps < MaxCalls
        /\ steps' = steps + 1
        /\ LET r == subscribe_with(root, topic, o, policy, Owners)
           IN  /\ root' = r.trie
               /\ ret' = [op |-> "subscribe_with", topic |-> topic,
                          subscriber |-> o, policy |-> policy,
                          is_prefix |-> FALSE, ok |-> r.ok, id |-> r.id,
                          reason |-> r.reason]
        /\ UNCHANGED <<routerVars, restVars>>

TrieUnsubscribe ==
    \E topic \in Patterns, o \in Owners, is_prefix \in BOOLEAN :
        /\ steps < MaxCalls
        /\ steps' = steps + 1
        /\ LET r == unsubscribe_with(root, topic, o, is_prefix)
           IN  /\ root' = r.trie
               /\ ret' = [op |-> "unsubscribe_with", topic |-> topic,
                          subscriber |-> o, policy |-> None,
                          is_prefix |-> is_prefix, ok |-> r.ok, id |-> r.id,
                          reason |-> r.reason]
        /\ UNCHANGED <<routerVars, restVars>>

NextTrie == TrieSubscribe \/ TrieUnsubscribe

SpecTrie == Init /\ [][NextTrie]_vars

Next ==
    \/ OnHello
    \/ OnSubscribe
    \/ OnUnsubscribe
    \/ OnPublish
    \/ OnGoodbye
    \/ OnRegister
    \/ OnUnregister
    \/ OnOther
    \/ OnCall
    \/ PeerClose
    \/ Shutdown

Spec == Init /\ [][Next]_vars

SpecCodec == Init /\ [][NextCodec]_vars

SpecClient == Init /\ [][NextClient]_vars

\* A client that connects and shuts down, issuing no request.  The receive
\* task and the router's event loop are threads that run.
NextShutdown ==
    \/ Connect
    \/ AwaitWelcome
    \/ ClientShutdown
    \/ RecvLoop
    \/ Teardown
    \/ RouterHandles
    \/ PeerSends

SpecShutdown ==
    /\ Init
    /\ [][NextShutdown]_vars
    /\ WF_vars(RecvLoop)
    /\ WF_vars(Teardown)
    /\ WF_vars(RouterHandles)

\* Handlers of different connections and Router::shutdown, each on a thread
\* of its own, taking and dropping the router's mutexes.
SpecLocks == Init /\ [][NextLocks]_vars

\* A client that connects and shuts down on a transport that may fail.
NextShutdownFails ==
    \/ Connect
    \/ AwaitWelcome
    \/ ClientShutdown
    \/ RecvLoop
    \/ RecvFails
    \/ Teardown
    \/ TeardownSendFails
    \/ RouterHandles
    \/ PeerSends

SpecShutdownFails == Init /\ [][NextShutdownFails]_vars

\* A client whose requests may fail to be sent.
NextRequestFails ==
    \/ Connect
    \/ AwaitWelcome
    \/ CallerBegin
    \/ CallerEnd
    \/ CallerBeginSendFails
    \/ CallerEndSendFails
    \/ RecvLoop
    \/ RouterHandles

SpecRequestFails == Init /\ [][NextRequestFails]_vars

\* The router's publish and subscribe, with sends that may fail.
NextSendFails ==
    \/ OnHello
    \/ OnSubscribe
    \/ OnPublish
    \/ OnPublishSendFails

SpecSendFails == Init /\ [][NextSendFails]_vars

\* ------------------------------------------------------------ the claims
Range(s) == {s[k] : k \in DOMAIN s}

\* the pattern matches the literal URI u under the policy
Matches(pattern, policy, u) ==
    CASE policy = "Strict" -> pattern = u
      [] policy = "Wildcard" ->
            /\ Len(pattern) = Len(u)
            /\ \A k \in 1..Len(pattern) : pattern[k] # "" => pattern[k] = u[k]
      [] policy = "Prefix" ->
            /\ Len(pattern) <= Len(u)
            /\ SubSeq(u, 1, Len(pattern)) = pattern

\* the entries a trie stores: owner, policy, and the pattern, which is the
\* path of the node that holds the entry
Stored(t) ==
    UNION {{[subscriber |-> w.subscriber, policy |-> w.policy, pattern |-> p] :
                w \in Range(t[p].connections) \cup Range(t[p].prefix_connections)} :
           p \in DOMAIN t}

Yielded(t, u) ==
    {[subscriber |-> x.subscriber, policy |-> x.policy, pattern |-> x.node] :
        x \in Range(filter(t, u))}

Events == {f \in Range(out) : f.type = "EVENT"}

\* C1: every EVENT of a PUBLISH carries the subscription ID that a SUBSCRIBED
\* frame gave its receiver for a subscription whose pattern matches the topic.
C1_EventCarriesSubscribedId ==
    last.type = "PUBLISH" =>
        \A e \in Events :
            \E s \in returned[e.to] :
                s.id = e.id /\ Matches(s.topic, s.policy, last.topic)

C3_FilterExact ==
    \A u \in URIs :
        Yielded(root, u) = {e \in Stored(root) : Matches(e.pattern, e.policy, u)}

\* C4: in what filter(u) yields, the prefix bag of a node comes before every
\* match of that visit of the node and beneath it, and where two matches part
\* ways at a node, the one reached through the "" edge comes first.
IsPrefixOf(a, b) == Len(a) <= Len(b) /\ SubSeq(b, 1, Len(a)) = a

WildcardFirst(a, b) ==
    \E k \in 1..Len(a) :
        /\ k <= Len(b)
        /\ SubSeq(a, 1, k - 1) = SubSeq(b, 1, k - 1)
        /\ a[k] = "Wildcard"
        /\ b[k] = "Strict"

C4_FilterOrder ==
    \A u \in URIs :
        LET r == filter(root, u)
        IN  \A i, j \in DOMAIN r :
                /\ ( /\ r[i].bag = "Prefix"
                     /\ IsPrefixOf(r[i].route, r[j].route)
                     /\ (r[j].bag = "Subs" \/ Len(r[j].route) > Len(r[i].route))
                   ) => i < j
                /\ WildcardFirst(r[i].route, r[j].route) => i < j

\* C4's case: a prefix match of an ancestor, then a match through the "" edge,
\* then a match through the literal edge, of three different nodes.
C4_Witness ==
    \E u \in URIs :
        LET r == filter(root, u)
        IN  /\ Len(r) = 3
            /\ r[1].bag = "Prefix" /\ r[1].node = <<"a">>
            /\ r[2].bag = "Subs" /\ r[2].node = <<"a", "">>
            /\ r[3].bag = "Subs" /\ r[3].node = <<"a", "a">>

\* C5: once a connection's transport is closed, no realm holds an entry that
\* it owns, and no realm lists it.
OwnsEntry(c, r) == \E e \in Stored(subscriptions[r]) : e.subscriber = c

C5_ClosedSessionGone ==
    \A c \in Conns :
        transport[c] = "closed" =>
            \A r \in RealmNames :
                ~OwnsEntry(c, r) /\ c \notin Range(connections[r])

\* the IDs of the buckets of trie t that hold an entry of c
BucketIds(t, c) ==
    {t[p].id : p \in {q \in DOMAIN t :
        \E w \in Range(t[q].connections) : w.subscriber = c}}
    \cup {t[p].prefix_id : p \in {q \in DOMAIN t :
        \E w \in Range(t[q].prefix_connections) : w.subscriber = c}}

\* C6: a connection's subscribed_topics, as a set, is the set of the IDs of
\* the buckets of its realm's trie that hold an entry of it.
C6_ListIsOwnedBuckets ==
    \A c \in Conns :
        Range(subscribed_topics[c]) =
            IF realm[c] = None THEN {}
            ELSE BucketIds(subscriptions[realm[c]], c)

\* C7: the EVENTs of a PUBLISH go only to connections whose realm is the
\* publisher's.
C7_RealmIsolation ==
    last.type = "PUBLISH" =>
        \A e \in Events : realm[e.to] = realm[last.conn]

\* C8: a HELLO for a realm that was never added is answered with
\* ABORT(no_such_realm), leaves the connection Disconnected, and in no realm.
C8_UnknownRealmAborted ==
    (last.type = "HELLO" /\ last.realm \notin RealmNames) =>
        /\ \E f \in Range(out) :
                f.type = "ABORT" /\ f.to = last.conn /\ f.reason = "NoSuchRealm"
        /\ state[last.conn] = "Disconnected"
        /\ \A r \in RealmNames : last.conn \notin Range(connections[r])

\* C9: a first message other than HELLO is answered with ABORT, the
\* transport is closed and the connection is Disconnected.
InboundTypes == {"HELLO", "SUBSCRIBE", "UNSUBSCRIBE", "PUBLISH", "GOODBYE"}
                    \cup OtherTypes

C9_NonHelloFirstAborted ==
    (last.type \in InboundTypes \ {"HELLO"} /\ last.prev = "Initializing") =>
        /\ \E f \in Range(out) : f.type = "ABORT" /\ f.to = last.conn
        /\ transport[last.conn] # "open"
        /\ state[last.conn] = "Disconnected"

\* C10: a GOODBYE that meets a Connected connection is answered with exactly
\* one GOODBYE(goodbye_and_out), the connection becomes Disconnected and its
\* transport is closed; no other message is answered with goodbye_and_out.
GoodbyeAndOuts ==
    {k \in DOMAIN out : out[k].type = "GOODBYE" /\ out[k].reason = "GoodbyeAndOut"}

C10_GoodbyeReply ==
    /\ (last.type = "GOODBYE" /\ last.prev = "Connected") =>
            /\ Cardinality(GoodbyeAndOuts) = 1
            /\ \A k \in GoodbyeAndOuts : out[k].to = last.conn
            /\ state[last.conn] = "Disconnected"
            /\ transport[last.conn] # "open"
    /\ GoodbyeAndOuts # {} => (last.type = "GOODBYE" /\ last.prev = "Connected")

C10_Witness ==
    /\ last.type = "GOODBYE"
    /\ last.prev = "Connected"
    /\ subscribed_topics[last.conn] # <<>>
    /\ out = <<Goodbye(last.conn, "GoodbyeAndOut")>>

\* C11: after Router::shutdown every session that was Connected is
\* ShuttingDown and was sent GOODBYE with the reason system_shutdown; and a
\* GOODBYE received while ShuttingDown leaves the session Disconnected with
\* its transport closing and sends nothing.
C11_ShutdownGoodbye ==
    /\ last.type = "SHUTDOWN" =>
            \A c \in Conns :
                last.states[c] = "Connected" =>
                    /\ state[c] = "ShuttingDown"
                    /\ \E k \in DOMAIN out :
                            /\ out[k].to = c
                            /\ out[k].type = "GOODBYE"
                            /\ out[k].reason = "SystemShutdown"
    /\ (last.type = "GOODBYE" /\ last.prev = "ShuttingDown") =>
            /\ state[last.conn] = "Disconnected"
            /\ transport[last.conn] # "open"
            /\ out = <<>>

\* C12: a message met in the Connected state that is none of the dispatched
\* types (a repeated HELLO, a WELCOME) leaves the session's realm as it was
\* and is answered with no WELCOME.
C12_OtherMessageRejected ==
    (last.type \in {"HELLO"} \cup OtherTypes /\ last.prev = "Connected") =>
        /\ realm[last.conn] = last.prev_realm
        /\ \A k \in DOMAIN out : out[k].type # "WELCOME"

\* the message being handled in this step is a SUBSCRIBE of a Connected
\* session that the realm's trie rejects
SubscribeFails ==
    /\ last'.type = "SUBSCRIBE"
    /\ state[last'.conn] = "Connected"
    /\ realm[last'.conn] # None
    /\ ~subscribe_with(subscriptions[realm[last'.conn]], last'.topic,
                       last'.conn, last'.policy, UsedIds).ok

\* ... or an UNSUBSCRIBE of a Connected session naming an ID that the
\* realm's map of subscription IDs does not hold
UnsubscribeUnknown ==
    /\ last'.type = "UNSUBSCRIBE"
    /\ state[last'.conn] = "Connected"
    /\ realm[last'.conn] # None
    /\ last'.id \notin DOMAIN subscription_ids_to_uris[realm[last'.conn]]

PerMessageFailure ==
    (SubscribeFails \/ UnsubscribeUnknown) =>
        LET c == last'.conn
            r == realm[c]
        IN  /\ out' = <<ErrorMsg(c,
                            IF SubscribeFails THEN "Subscribe" ELSE "Unsubscribe",
                            last'.request,
                            IF SubscribeFails THEN "InvalidURI"
                            ELSE "NoSuchSubscription")>>
            /\ state'[c] = "Connected"
            /\ realm'[c] = r
            /\ connections'[r] = connections[r]
            /\ Stored(subscriptions'[r]) = Stored(subscriptions[r])

\* C13: a SUBSCRIBE the trie rejects, or an UNSUBSCRIBE of an unknown ID, is
\* answered with exactly one ERROR carrying the request's type, its ID and
\* the reason; the session stays Connected and in its realm's list, and the
\* stored entries of the realm do not change.
C13_PerMessageFailure == [][PerMessageFailure]_vars

\* a rejected SUBSCRIBE was answered while the realm held entries
C13_Witness ==
    /\ last.type = "SUBSCRIBE"
    /\ last.prev = "Connected"
    /\ \E k \in DOMAIN out : out[k].type = "ERROR"
    /\ last.conn \in Range(connections[realm[last.conn]])
    /\ Stored(subscriptions[realm[last.conn]]) # {}

\* what filter yields for the PUBLISH handled last, less the publisher's own
\* entries: the entries that produce its EVENTs, one each and in this order
Producers ==
    LET NotPublisher(item) == item.subscriber # last.conn
    IN  SelectSeq(filter(subscriptions[realm[last.conn]], last.topic),
                  NotPublisher)

\* C14: the details of an EVENT carry the published topic if the entry that
\* produced it is not Strict, and no topic if it is Strict, for each
\* recipient of one publication.
C14_EventTopicIffNotStrict ==
    (last.type = "PUBLISH" /\ last.prev_realm # None) =>
        \A k \in DOMAIN Producers :
            /\ out[k].type = "EVENT"
            /\ out[k].to = Producers[k].subscriber
            /\ out[k].topic =
                    IF Producers[k].policy = "Strict" THEN NoTopic ELSE last.topic

\* one publication was delivered through a Strict entry and through a
\* Wildcard or Prefix entry
C14_Witness ==
    /\ last.type = "PUBLISH"
    /\ \E e \in Events : e.topic = NoTopic
    /\ \E e \in Events : e.topic = last.topic

Publisheds == {k \in DOMAIN out : out[k].type = "PUBLISHED"}

\* C15: a PUBLISH is answered with PUBLISHED exactly when its options set
\* acknowledge to true; then there is one PUBLISHED, sent to the publisher,
\* with the request ID of the PUBLISH and the publication ID of its EVENTs.
C15_PublishedIffAcknowledge ==
    (last.type = "PUBLISH" /\ last.prev_realm # None) =>
        /\ Cardinality(Publisheds) = (IF last.ack THEN 1 ELSE 0)
        /\ \A k \in Publisheds :
                /\ out[k].to = last.conn
                /\ out[k].request = last.request
                /\ \A e \in Events : e.publication = out[k].publication

\* C16: the upgrade selects wamp.2.msgpack if the request offers it anywhere
\* in its list, else wamp.2.json if that is offered, and is rejected if
\* neither is; the selected sub-protocol is the one recorded for the session.
C16_ProtocolChoice ==
    last.type = "REQUEST" =>
        LET c == last.conn
            offers == Range(last.offered)
        IN  IF WAMP_MSGPACK \in offers
            THEN transport[c] = "open" /\ protocol[c] = WAMP_MSGPACK
            ELSE IF WAMP_JSON \in offers
                 THEN transport[c] = "open" /\ protocol[c] = WAMP_JSON
                 ELSE transport[c] = "closed"

\* a pattern that insert must refuse: the empty URI, or one with an empty
\* fragment under a policy other than Wildcard
InvalidPattern(topic, policy) ==
    \/ topic = <<"">>
    \/ policy # "Wildcard" /\ \E k \in DOMAIN topic : topic[k] = ""

RejectedInsert ==
    ret'.op = "subscribe_with" =>
        /\ InvalidPattern(ret'.topic, ret'.policy) =>
                ~ret'.ok /\ ret'.reason = "InvalidURI"
        /\ ~ret'.ok =>
                /\ Stored(root') = Stored(root)
                /\ \A u \in URIs : filter(root', u) = filter(root, u)

\* C17: subscribe_with answers InvalidURI to the empty URI and to every
\* pattern with an empty fragment, the first included, unless the policy is
\* Wildcard; a rejected insert stores no entry and leaves every filter
\* result as it was.
C17_InvalidPatternRejected == [][RejectedInsert]_vars

\* the bag of node n that unsubscribe_with(_, _, is_prefix) selects, without
\* the entries of the owner o
BagWithout(n, is_prefix, o) ==
    LET NotOwner(w) == w.subscriber # o
    IN  IF is_prefix
        THEN [n EXCEPT !.prefix_connections = SelectSeq(@, NotOwner)]
        ELSE [n EXCEPT !.connections = SelectSeq(@, NotOwner)]

RemoveStep ==
    ret'.op = "unsubscribe_with" =>
        IF ret'.topic \in DOMAIN root
        THEN /\ ret'.ok
             /\ root' = [root EXCEPT ![ret'.topic] =
                            BagWithout(@, ret'.is_prefix, ret'.subscriber)]
        ELSE /\ ~ret'.ok
             /\ ret'.reason = "NoSuchSubscription"
             /\ root' = root

\* C18: unsubscribe_with(pattern, owner, is_prefix) takes every entry of the
\* owner out of the selected bag of the node at pattern and changes nothing
\* else; if no node is at pattern it answers "no such subscription" and
\* changes nothing.
C18_RemoveFrame == [][RemoveStep]_vars

\* the ID of the bucket a subscription with this policy goes to, at node n
BucketId(n, policy) == IF policy = "Prefix" THEN n.prefix_id ELSE n.id

IdsStable ==
    /\ \A p \in DOMAIN root :
            /\ p \in DOMAIN root'
            /\ root'[p].id = root[p].id
            /\ root'[p].prefix_id = root[p].prefix_id
    /\ (ret'.op = "subscribe_with" /\ ret'.ok) =>
            ret'.id = BucketId(root'[ret'.topic], ret'.policy)

\* C19: an accepted insert returns the ID of the bucket (exact or prefix) of
\* the node at its pattern, whoever the owner is, and no insert or remove
\* changes the IDs of a node or takes a node away, so the ID of a bucket is
\* the same before and after it was empty.
C19_BucketIdStable == [][IdsStable]_vars

\* the last insert was accepted into a bucket that now holds entries of two
\* owners
C19_Witness ==
    /\ ret.op = "subscribe_with"
    /\ ret.ok
    /\ LET n == root[ret.topic]
           bag == IF ret.policy = "Prefix" THEN n.prefix_connections
                  ELSE n.connections
       IN  \E i, j \in DOMAIN bag : bag[i].subscriber # bag[j].subscriber

RegisterAgain ==
    (/\ last'.type = "REGISTER"
     /\ realm[last'.conn] # None
     /\ \E e \in Stored(registrations[realm[last'.conn]]) :
            e.pattern = last'.topic /\ e.policy = last'.policy) =>
        LET c == last'.conn
            r == realm[c]
        IN  /\ out' = <<ErrorMsg(c, "Register", last'.request,
                                 "ProcedureAlreadyExists")>>
            /\ registrations'[r] = registrations[r]

\* C20: a REGISTER for a procedure pattern that has a registrant under the
\* same policy is answered with ERROR (REGISTER, its request ID,
\* procedure_already_exists) and stores nothing.
C20_SecondRegisterRefused == [][RegisterAgain]_vars

Invocations == {k \in DOMAIN out : out[k].type = "INVOCATION"}

\* C21: a CALL of a Connected session for a procedure that a registration
\* of its realm matches is followed by exactly one INVOCATION.
C21_CallInvokesOnce ==
    (/\ last.type = "CALL"
     /\ last.prev = "Connected"
     /\ last.prev_realm # None
     /\ \E e \in Stored(registrations[last.prev_realm]) :
            Matches(e.pattern, e.policy, last.topic)) =>
        Cardinality(Invocations) = 1

\* C22: what is read back from the encoding of a message is that message,
\* for every variant and for args and kwargs each present or absent.
C22_CodecRoundTrip ==
    decoded # Undecoded => decoded = DecodeOk(message)

\* the request with the ID r has been written to the socket
Sent(r) ==
    /\ r <= max_session_id
    /\ ~(caller.request = r /\ InsertsFirst(caller.op))

\* a completion is stored under r in a pending-request map
Pending(r) ==
    \E op \in RequestOps : r \in DOMAIN connection_info[RequestMap(op)]

\* C23: the completion of a SUBSCRIBE, REGISTER, acknowledged PUBLISH,
\* UNSUBSCRIBE or UNREGISTER is in its pending-request map before the
\* request is sent: a request that has been sent has its completion stored,
\* unless a reply has resolved it already.
C23_StoredBeforeSent ==
    \A r \in 1..MaxRequests : Sent(r) => (Pending(r) \/ resolved[r] > 0)

\* the receive loop takes the frame m in this step
Takes(m) ==
    /\ recv_loop = "running"
    /\ to_client # <<>>
    /\ m = Head(to_client)
    /\ to_client' = Tail(to_client)

\* the pending-request map of the request type an ERROR names
ErrorMap(errtype) ==
    CASE errtype = "Subscribe" -> "subscription_requests"
      [] errtype = "Unsubscribe" -> "unsubscription_requests"
      [] errtype = "Publish" -> "published_callbacks"
      [] errtype = "Register" -> "registration_requests"
      [] errtype = "Unregister" -> "unregistration_requests"

ErrorRejects ==
    \A m \in Range(to_client) :
        (/\ Takes(m)
         /\ m.type = "ERROR"
         /\ m.request \in DOMAIN connection_info[ErrorMap(m.errtype)]) =>
            m.request \notin DOMAIN connection_info'[ErrorMap(m.errtype)]

\* C24: when the receive loop takes an ERROR whose request ID is in the
\* pending-request map of the ERROR's request type, the entry is taken out
\* of the map (and its completion rejected).
C24_ErrorRejects == [][ErrorRejects]_vars

ReplyStep ==
    \A m \in Range(to_client) :
        (Takes(m) /\ m.type \in ReplyTypes) =>
            IF m.request \in DOMAIN connection_info[ReplyMap(m.type)]
            THEN /\ m.request \notin DOMAIN connection_info'[ReplyMap(m.type)]
                 /\ resolved' = [resolved EXCEPT ![m.request] = @ + 1]
            ELSE /\ connection_info' = connection_info
                 /\ resolved' = resolved
                 /\ recv_loop' = "running"

\* C25: a completion is resolved at most once: the reply that resolves it
\* takes it out of its map, and a SUBSCRIBED, UNSUBSCRIBED, PUBLISHED,
\* REGISTERED or UNREGISTERED whose request ID is not in the matching map
\* resolves nothing, changes no map and does not end the receive loop.
C25_AtMostOneReply ==
    /\ [](\A r \in 1..MaxRequests : resolved[r] <= 1)
    /\ [][ReplyStep]_vars

\* the router's SUBSCRIBED resolved a request and a second SUBSCRIBED for it
\* was taken afterwards
C25_Witness ==
    /\ received.type = "SUBSCRIBED"
    /\ received.id = PeerTopicId
    /\ resolved[received.request] = 1
    /\ PeerTopicId \notin DOMAIN connection_info.subscriptions
    /\ recv_loop = "running"

TerminationRejects ==
    (recv_loop = "stopped" /\ recv_loop' = "done") =>
        \A op \in RequestOps : connection_info'[RequestMap(op)] = <<>>

\* C26: when the receive task ends, whatever ended its loop, every
\* pending-request map is empty afterwards (its completions rejected).
C26_TerminationRejects == [][TerminationRejects]_vars

\* this step is a call of Client::shutdown: it returns from shutdown, and
\* neither the receive task nor the router nor another method took it
ShutdownCall ==
    /\ result'.op = "shutdown"
    /\ UNCHANGED <<recv_loop, to_client, max_session_id, caller, injected>>
    /\ Len(to_router') >= Len(to_router)

ShutdownStep ==
    ShutdownCall =>
        IF connection_info.connection_state = "Connected"
        THEN /\ result' = Returned("shutdown", TRUE, None)
             /\ connection_info' = [connection_info EXCEPT
                                        !.connection_state = "ShuttingDown",
                                        !.shutdown_complete = TRUE]
             /\ to_router' = Append(to_router,
                                    [ClientMsg("GOODBYE") EXCEPT
                                        !.reason = "SystemShutdown"])
        ELSE /\ result' = Returned("shutdown", FALSE, "InvalidState")
             /\ to_router' = to_router
             /\ connection_info' = connection_info

\* C27: shutdown() returns Ok only if the state is Connected, and then the
\* state is ShuttingDown, the shutdown completion is installed and GOODBYE
\* with the reason system_shutdown is sent; in ShuttingDown or Disconnected
\* it returns the invalid-state error, sends nothing and leaves the state
\* and the shutdown completion as they were.
C27_ShutdownOnlyConnected == [][ShutdownStep]_vars

\* shutdown() was refused while an earlier shutdown waits for its GOODBYE
C27_Witness ==
    /\ result = Returned("shutdown", FALSE, "InvalidState")
    /\ connection_info.connection_state = "ShuttingDown"
    /\ connection_info.shutdown_complete

\* the client takes the router's GOODBYE while it is ShuttingDown: the
\* shutdown completion is resolved and the loop is left
GoodbyeAcknowledged ==
    \A m \in Range(to_client) :
        (/\ Takes(m)
         /\ m.type = "GOODBYE"
         /\ connection_info.connection_state = "ShuttingDown") =>
            /\ shutdown_resolved' = 1
            /\ ~connection_info'.shutdown_complete
            /\ recv_loop' = "stopped"

\* the router takes the GOODBYE of the client's shutdown() while the
\* session is Connected: one GOODBYE(goodbye_and_out) is on its way back
\* and the session is Disconnected
GoodbyeAnswered ==
    (/\ to_router # <<>>
     /\ to_router' = Tail(to_router)
     /\ Head(to_router).type = "GOODBYE"
     /\ Head(to_router).reason = "SystemShutdown"
     /\ state[ClientConn] = "Connected") =>
        /\ out' = <<Goodbye(ClientConn, "GoodbyeAndOut")>>
        /\ state'[ClientConn] = "Disconnected"

\* the router's answer to the GOODBYE of shutdown() has reached the client
GoodbyeTaken ==
    /\ connection_info.connection_state = "ShuttingDown"
    /\ received.type = "GOODBYE"
    /\ received.reason = "GoodbyeAndOut"
    /\ recv_loop = "stopped"

BothDisconnected ==
    /\ connection_info.connection_state = "Disconnected"
    /\ state[ClientConn] = "Disconnected"
    /\ shutdown_resolved = 1
    /\ recv_loop = "done"

\* neither side leaves Disconnected
DisconnectedStays ==
    /\ connection_info.connection_state = "Disconnected" =>
            connection_info'.connection_state = "Disconnected"
    /\ (state[ClientConn] = "Disconnected"
            /\ connection_info.connection_state # "Connected") =>
            state'[ClientConn] = "Disconnected"

\* C28: when the router's GOODBYE reaches a client that waits in shutdown(),
\* the shutdown completion is resolved, once and never again, and the
\* receive loop is left; the router answers the client's GOODBYE, met in
\* the Connected state, with exactly one GOODBYE(goodbye_and_out) and holds
\* the session Disconnected; and the receive task ends with both sides
\* Disconnected for good.
C28_GracefulShutdown ==
    /\ [](shutdown_resolved <= 1)
    /\ [][GoodbyeAcknowledged /\ GoodbyeAnswered /\ DisconnectedStays]_vars
    /\ GoodbyeTaken ~> BothDisconnected

\* the handshake is over: the router's GOODBYE(goodbye_and_out) was the
\* frame that resolved the shutdown completion
C28_Witness ==
    /\ BothDisconnected
    /\ result = Returned("shutdown", TRUE, None)
    /\ injected = 0
    /\ last.type = "GOODBYE"
    /\ last.prev = "Connected"

\* connect takes the first frame that follows its HELLO
FirstMessage ==
    (connecting = "awaiting" /\ to_client # <<>> /\ to_client' = Tail(to_client)) =>
        LET m == Head(to_client)
        IN  IF m.type = "WELCOME"
            THEN /\ connecting' = "ok"
                 /\ result' = Returned("connect", TRUE, None)
                 /\ client_id' = m.id
                 /\ recv_loop' = "running"
            ELSE /\ connecting' = "err"
                 /\ result'.op = "connect"
                 /\ ~result'.ok
                 /\ client_id' = 0
                 /\ recv_loop' = "none"

\* C29: connect returns a Client only if the first message that follows
\* its HELLO is WELCOME, and the Client's id is the one that WELCOME
\* carries; on ABORT, on any other message, on a payload that does not
\* decode or on a close it returns an error, and then, as before connect
\* has returned, there is no receive task.
C29_ConnectNeedsWelcome ==
    /\ [][FirstMessage]_vars
    /\ [](connecting # "ok" => (recv_loop = "none" /\ client_id = 0))

\* connect failed on an ABORT
C29_Witness ==
    /\ connecting = "err"
    /\ received.type = "ABORT"
    /\ result = Returned("connect", FALSE, "ConnectionLost")
    /\ recv_loop = "none"

GoodbyeAndOutsSent(q) ==
    {k \in DOMAIN q : q[k].type = "GOODBYE" /\ q[k].reason = "GoodbyeAndOut"}

\* the receive loop takes a GOODBYE while the client is Connected: it
\* writes GOODBYE(goodbye_and_out) and leaves the loop
GoodbyeReplied ==
    \A m \in Range(to_client) :
        (/\ Takes(m)
         /\ m.type = "GOODBYE"
         /\ connection_info.connection_state = "Connected") =>
            /\ to_router' = Append(to_router,
                                   [ClientMsg("GOODBYE") EXCEPT
                                        !.reason = "GoodbyeAndOut"])
            /\ recv_loop' = "stopped"

\* once the loop is left it is not entered again and no further
\* GOODBYE(goodbye_and_out) is written
LoopLeft ==
    recv_loop \in {"stopped", "done"} =>
        /\ recv_loop' \in {"stopped", "done"}
        /\ Cardinality(GoodbyeAndOutsSent(to_router'))
                <= Cardinality(GoodbyeAndOutsSent(to_router))

\* a Disconnected client stays Disconnected, and its shutdown() is refused
RefusedForGood ==
    connection_info.connection_state = "Disconnected" =>
        /\ connection_info'.connection_state = "Disconnected"
        /\ ShutdownCall =>
                /\ result' = Returned("shutdown", FALSE, "InvalidState")
                /\ to_router' = to_router

YieldsFrom(t, u, p, bag) ==
    Cardinality({k \in DOMAIN filter(t, u) :
                    filter(t, u)[k].node = p /\ filter(t, u)[k].bag = bag})

\* C31: one call of filter(u) yields each stored entry at most once, for
\* every URI u, one with an empty fragment included: from no bag come more
\* items than the bag holds entries.
C31_FilterYieldsOnce ==
    \A u \in URIs :
        \A p \in DOMAIN root :
            /\ YieldsFrom(root, u, p, "Prefix") <= Len(root[p].prefix_connections)
            /\ YieldsFrom(root, u, p, "Subs") <= Len(root[p].connections)

\* C32: of the EVENTs of one publication, no two go to the same session
\* for the same bucket (the same subscription ID), however often the
\* session subscribed to the bucket's pattern.
C32_OneEventPerSubscription ==
    (last.type = "PUBLISH" /\ last.prev_realm # None) =>
        \A j, k \in DOMAIN Producers :
            (/\ out[j].type = "EVENT"
             /\ out[k].type = "EVENT"
             /\ out[j].to = out[k].to
             /\ Producers[j].node = Producers[k].node
             /\ Producers[j].bag = Producers[k].bag) => j = k

\* C33: whenever a bucket of a realm's trie holds an entry, the realm's map
\* from subscription IDs to patterns has the ID of that bucket.
C33_SideMapConsistent ==
    \A r \in RealmNames :
        \A p \in DOMAIN subscriptions[r] :
            LET n == subscriptions[r][p]
            IN  /\ n.connections # <<>> =>
                        n.id \in DOMAIN subscription_ids_to_uris[r]
                /\ n.prefix_connections # <<>> =>
                        n.prefix_id \in DOMAIN subscription_ids_to_uris[r]

\* the entries of the realm's tries that the session c owns
OwnedBy(c, r) ==
    {e \in Stored(subscriptions[r]) \cup Stored(registrations[r]) :
        e.subscriber = c}

DisconnectedStep ==
    (/\ last'.type \in {"HELLO", "SUBSCRIBE", "REGISTER", "PUBLISH", "GOODBYE"}
     /\ state[last'.conn] = "Disconnected") =>
        /\ state' = state
        /\ connections' = connections
        /\ \A r \in RealmNames :
                {e \in Stored(subscriptions'[r]) \cup Stored(registrations'[r]) :
                    e.subscriber = last'.conn} \subseteq OwnedBy(last'.conn, r)
        /\ out' = <<>>

\* C34: a HELLO, SUBSCRIBE, REGISTER, PUBLISH or GOODBYE that meets a
\* session in the Disconnected state leaves every session's state and
\* every realm's session list as they were, adds no trie entry owned by
\* the session, and sends nothing.
C34_DisconnectedTerminal == [][DisconnectedStep]_vars

\* C35: every session that owns an entry of a realm's subscription or
\* registration trie is in that realm's session list, exactly once.
C35_OwnersAreMembers ==
    \A r \in RealmNames :
        \A c \in Conns :
            OwnedBy(c, r) # {} =>
                Cardinality({k \in DOMAIN connections[r] :
                                connections[r][k] = c}) = 1

\* the order the claim names: realm map, realm, connection info
LockRank(l) ==
    IF l[1] = "realms" THEN 0 ELSE IF l[1] = "realm" THEN 1 ELSE 2

\* the thread waits in lock()
Blocked(t) ==
    /\ program[t] # <<>>
    /\ Head(program[t]).op = "lock"
    /\ Taken(Head(program[t]).lock)

\* the thread that holds the lock t waits for
Holder(t) ==
    CHOOSE u \in Threads :
        \E k \in DOMAIN held[u] : held[u][k] = Head(program[t]).lock

\* t waits, and so does every thread down the chain of holders from it
RECURSIVE Stuck(_, _)
Stuck(t, n) ==
    IF n = 0 THEN TRUE
    ELSE IF ~Blocked(t) THEN FALSE
    ELSE Stuck(Holder(t), n - 1)

LockOrderKept ==
    \A t \in Threads :
        \A j, k \in DOMAIN held[t] :
            j < k => LockRank(held[t][j]) < LockRank(held[t][k])

SendTakesInfoOnly ==
    \A c \in Conns :
        \A k \in DOMAIN send_message_locks(c) :
            send_message_locks(c)[k].lock[1] = "info"

\* C36: with the handlers of different sessions and Router::shutdown running
\* concurrently, no thread waits for a lock for ever: every chain of threads
\* waiting for each other's locks ends at a thread that can run.  A send
\* takes connection-info locks only, and every thread holds its locks in
\* the order realm map, realm, connection info (so none takes a realm lock
\* or the realm-map lock while it holds a connection-info lock).
C36_NoDeadlock ==
    /\ \A t \in Threads : ~Stuck(t, Cardinality(Threads))
    /\ LockOrderKept
    /\ SendTakesInfoOnly

\* Router::shutdown waits for a realm whose holder, a handler, waits for the
\* connection-info lock that another handler holds
C36_ChainOfWaiters ==
    /\ Blocked(ShutdownThread)
    /\ Len(held[ShutdownThread]) = 1
    /\ Holder(ShutdownThread) # ShutdownThread
    /\ Blocked(Holder(ShutdownThread))
    /\ Holder(Holder(ShutdownThread)) \notin
            {ShutdownThread, Holder(ShutdownThread)}

\* the message handled last was one during which the send to a session
\* other than its sender failed
PeerSendFailed ==
    /\ ws_result.step = steps
    /\ ws_result.failed \notin {0, last.conn}

\* C37: when the send of an EVENT to one subscriber fails during a PUBLISH,
\* every entry of another subscriber that matches still gets its EVENT, the
\* PUBLISH is answered with PUBLISHED if it asked for it, and on_message
\* returns no error for the publisher's connection.
C37_FailedSendIsolated ==
    (last.type = "PUBLISH" /\ PeerSendFailed) =>
        /\ \A k \in DOMAIN Producers :
                Producers[k].subscriber # ws_result.failed =>
                    \E e \in Events :
                        e.to = Producers[k].subscriber /\ e.id = Producers[k].id
        /\ ws_result.acknowledge => Publisheds # {}
        /\ ws_result.err = None

\* C38: when a subscribe, register, publish_and_acknowledge, unsubscribe or
\* unregister has returned an error because its request could not be sent,
\* no pending-request map holds an entry for the request ID it drew.
C38_FailedRequestLeavesNoEntry ==
    (caller = Idle /\ result.op \in RequestOps /\ ~result.ok) =>
        \A op \in RequestOps :
            max_session_id \notin DOMAIN connection_info[RequestMap(op)]

\* C39: once the receive task has ended, for whatever cause, no completion
\* that shutdown() returned is left unresolved; and none is resolved twice.
C39_CompletionResolvedAtEnd ==
    /\ recv_loop \in {"done", "panicked"} => ~connection_info.shutdown_complete
    /\ shutdown_resolved <= 1

\* the callbacks registered for EVENTs, each named by the request ID of the
\* subscribe that passed it
Callbacks == Range(connection_info.subscriptions)

CallbackStays ==
    received'.type # "UNSUBSCRIBED" => Callbacks \subseteq Callbacks'

\* C40: the callback of a completed subscribe stays registered through every
\* step that is not the arrival of an UNSUBSCRIBED; the completion of a later
\* subscribe, with the same subscription ID too, leaves it in place.
C40_CallbackStaysRegistered == [][CallbackStays]_vars

====
